---- MODULE Spec2Model ----
(***************************************************************************)
(* Verification model of the three-strategy stock screener                 *)
(*   src/github-actions/combined_screener_cloud.py  (sequential scan,      *)
(*                                                   the three detectors)  *)
(*   src/combined_screener.py                       (thread-pool scan,     *)
(*                                                   report / aggregation) *)
(*                                                                         *)
(* Numbers.  Prices and volumes are non-negative integers (a price of      *)
(* 1000 stands for 10.00).  A real-valued quantity of the code is held as  *)
(* an exact fraction [n, d] with d > 0, and every threshold test of the    *)
(* code is decided exactly on it.  Percent thresholds of the configuration *)
(* are held in hundredths of a percent (0.3 is 30, 9.5 is 950); ratio      *)
(* thresholds in hundredths (0.6 is 60).  A value the code rounds with     *)
(* round(x, 2) is held in hundredths, rounded half to even as Python       *)
(* does.  A division of a positive number by zero gives Inf, as it does    *)
(* on the numpy scalars a DataFrame row holds; the detectors' results      *)
(* carry a flag divzero saying that such a division was executed.          *)
(***************************************************************************)
EXTENDS Integers, Sequences, FiniteSets, TLC

VARIABLES
    df,                \* detector input: the bar series under evaluation
    code,              \* detector input: the symbol code's board ("main", "3xx", "300")
    result,            \* detector -> its result on (df, code), or Pending
    stocks,            \* the universe: a sequence of symbol ids
    feed,              \* symbol -> what the data collaborator delivers for it
    mode,              \* "sequential" (cloud run) or "concurrent" (thread pool run)
    pc,                \* position of run()
    todo,              \* symbols whose evaluation has not completed yet
    fault,             \* symbol -> the detector that raised on it ("none" if none)
    detectors_run,     \* symbol -> the detectors that were evaluated on it
    checked,           \* (symbol, feed, mode) -> the series fetched and the detectors' returns
    reversal_results,  \* run(): the per-detector result lists
    volume_results,
    shrink_results,
    hit_map,           \* _print_report: code -> [strategies, scores], with insertion order
    multi_listing,     \* _print_report: the resonance listing as printed
    ranked,            \* _print_report: the top recommendations as printed
    reports,           \* how many times the report was produced
    bs_logged_in,      \* cloud screener: the session flag self.bs_logged_in
    bs_calls,          \* cloud screener: the calls made on the data session, in order
    run_pc,            \* cloud screener: position of run()
    run_left,          \* cloud screener: symbols of the universe not screened yet
    run_hits,          \* cloud screener: results appended to the three lists so far
    files_written,     \* cloud screener: files written by _save_results
    messages,          \* agent: the conversation sent with each model call
    response,          \* agent: the reply to the latest model call
    iteration,         \* agent: loop index of run_agent
    api_calls,         \* agent: calls of client.messages.create made so far
    agent_pc,          \* agent: position of run_agent
    saved_reports,     \* agent: the texts handed to save_report, in order
    results_file       \* agent: whether output/latest_results.json exists

vars == <<df, code, result, stocks, feed, mode, pc, todo, fault, detectors_run, checked,
          reversal_results, volume_results, shrink_results,
          hit_map, multi_listing, ranked, reports,
          bs_logged_in, bs_calls, run_pc, run_left, run_hits, files_written,
          messages, response, iteration, api_calls, agent_pc, saved_reports, results_file>>

detVars  == <<df, code, result>>
scanVars == <<stocks, feed, mode, todo, fault, detectors_run, checked>>
listVars == <<reversal_results, volume_results, shrink_results>>
repVars  == <<hit_map, multi_listing, ranked, reports>>
cloudVars == <<bs_logged_in, bs_calls, run_pc, run_left, run_hits, files_written>>
agentVars == <<messages, response, iteration, api_calls, agent_pc, saved_reports, results_file>>

----------------------------------------------------------------------------
(* Arithmetic helpers *)

Abs(x) == IF x < 0 THEN -x ELSE x
Min2(a, b) == IF a <= b THEN a ELSE b
Max2(a, b) == IF a >= b THEN a ELSE b

\* The value a float division by zero of a positive number yields (+inf).
Inf == 1000 * 1000 * 1000

\* An exact fraction n/d, d > 0.
Frac(n, d) == [n |-> n, d |-> d]
FLt(f, g) == f.n * g.d < g.n * f.d
FLe(f, g) == f.n * g.d <= g.n * f.d
FMax(f, g) == IF FLt(f, g) THEN g ELSE f
FAbs(f) == Frac(Abs(f.n), f.d)
\* f compared with the number t/100
\* A variant of >= that leaves the threshold itself out.
GeH_exclusive(f, t) == f.n * 100 > t * f.d
GeH(f, t) == f.n * 100 >= t * f.d
GtH(f, t) == f.n * 100 > t * f.d
LeH(f, t) == f.n * 100 <= t * f.d
LtH(f, t) == f.n * 100 < t * f.d

\* Quotient truncated toward zero (b > 0).
QuoT(a, b) == IF a >= 0 THEN a \div b ELSE -((-a) \div b)

\* round(a / b) of Python 3: to the nearest integer, a tie to the even one (b > 0).
RoundHalfEven(a, b) ==
    LET q == a \div b
        r == a - q * b
    IN  IF 2 * r < b THEN q
        ELSE IF 2 * r > b THEN q + 1
        ELSE IF q % 2 = 0 THEN q ELSE q + 1

\* round(f, 2) in hundredths.
Round2(f) == RoundHalfEven(f.n * 100, f.d)
\* f in thousandths, truncated: the resolution the scores are computed at.
Milli(f) == QuoT(f.n * 1000, f.d)

\* (a - b) / b * 100   (b > 0)
PctChange(a, b) == Frac((a - b) * 100, b)

----------------------------------------------------------------------------
(* Bar series *)

Bar(o, h, l, c, v) == [open |-> o, high |-> h, low |-> l, close |-> c, volume |-> v]

\* A DataFrame, or None.
DataFrame(rows) == [isNone |-> FALSE, rows |-> rows]
NoneDf == [isNone |-> TRUE, rows |-> << >>]
None == [none |-> TRUE]

\* len(df)
DfLen(d) == Len(d.rows)
\* df.iloc[i] with Python's indexing: 0-based, negative from the end.
ILoc(d, i) == IF i < 0 THEN d.rows[Len(d.rows) + i + 1] ELSE d.rows[i + 1]

\* The window aggregates halve the window, so that their evaluation stays shallow.
RECURSIVE SumClose(_, _, _)
\* df.iloc[a:b]['close'].sum()
SumClose(d, a, b) ==
    IF a >= b THEN 0
    ELSE IF a + 1 = b THEN ILoc(d, a).close
    ELSE LET m == (a + b) \div 2 IN SumClose(d, a, m) + SumClose(d, m, b)
RECURSIVE MaxClose(_, _, _)
\* df.iloc[a:b]['close'].max()   (a < b)
MaxClose(d, a, b) ==
    IF a + 1 >= b THEN ILoc(d, a).close
    ELSE LET m == (a + b) \div 2 IN Max2(MaxClose(d, a, m), MaxClose(d, m, b))
RECURSIVE MinClose(_, _, _)
\* df.iloc[a:b]['close'].min()   (a < b)
MinClose(d, a, b) ==
    IF a + 1 >= b THEN ILoc(d, a).close
    ELSE LET m == (a + b) \div 2 IN Min2(MinClose(d, a, m), MinClose(d, m, b))
RECURSIVE SumVolume(_, _, _)
\* df.iloc[a:b]['volume'].sum()
SumVolume(d, a, b) ==
    IF a >= b THEN 0
    ELSE IF a + 1 = b THEN ILoc(d, a).volume
    ELSE LET m == (a + b) \div 2 IN SumVolume(d, a, m) + SumVolume(d, m, b)

\* (max - min) / mean * 100 of the closes of df.iloc[a:b]   (sum > 0)
Amplitude(d, a, b) ==
    Frac((MaxClose(d, a, b) - MinClose(d, a, b)) * (b - a) * 100, SumClose(d, a, b))

----------------------------------------------------------------------------
(* Strategy configuration (__init__) *)

reversal_config ==
    [small_bear_min |-> 30, small_bear_max |-> 200, big_bear_min |-> 300,
     gap_down_min |-> 0, bull_close_min |-> 100, prior_decline_days |-> 22,
     prior_decline_min |-> 300, max_upper_shadow |-> 3000]

\* A variant that asks for 4 post-consolidation bars.
volume_breakout_config_post4 ==
    [prior_lookback_days |-> 60, prior_decline_min_pct |-> 1500,
     consol_min_days |-> 22, consol_max_range_pct |-> 1500,
     limit_up_main_board |-> 950, limit_up_chinext |-> 1950,
     limit_up_body_ratio_min |-> 60, post_consol_min_days |-> 4,
     post_consol_max_lookback |-> 20]

volume_breakout_config ==
    [prior_lookback_days |-> 60, prior_decline_min_pct |-> 1500,
     consol_min_days |-> 22, consol_max_range_pct |-> 1500,
     limit_up_main_board |-> 950, limit_up_chinext |-> 1950,
     limit_up_body_ratio_min |-> 60, post_consol_min_days |-> 5,
     post_consol_max_lookback |-> 20]

\* A variant that lets a close after the limit-up bar fall 1% under its close.
shrink_breakout_config_tolerant ==
    [min_decline_pct |-> 1500, consolidation1_min_days |-> 22,
     consolidation1_max_amplitude |-> 1500, limit_up_main_pct |-> 980,
     limit_up_chinext_pct |-> 1980, consolidation2_min_days |-> 5,
     consolidation2_max_amplitude |-> 1000, consolidation2_support_tolerance |-> 1,
     vol_ma_short |-> 5, vol_ma_long |-> 10]

shrink_breakout_config ==
    [min_decline_pct |-> 1500, consolidation1_min_days |-> 22,
     consolidation1_max_amplitude |-> 1500, limit_up_main_pct |-> 980,
     limit_up_chinext_pct |-> 1980, consolidation2_min_days |-> 5,
     consolidation2_max_amplitude |-> 1000, consolidation2_support_tolerance |-> 0,
     vol_ma_short |-> 5, vol_ma_long |-> 10]

\* A detector's "return False, None" and "return True, detail".  dz says whether a
\* division by zero was executed on the way; raised says whether the call ended in
\* an exception instead of a return (no path of the detectors does: a division by
\* zero on numpy scalars yields inf and a warning the module silences).
NotMatched(dz) == [match |-> FALSE, detail |-> None, divzero |-> dz, raised |-> FALSE]
Matched(detail, dz) == [match |-> TRUE, detail |-> detail, divzero |-> dz, raised |-> FALSE]

----------------------------------------------------------------------------
(* Strategy 1: three-day reversal *)

\* upper_shadow_ratio(row): (high - max(open, close)) / (high - low) * 100, 0 on a zero range
upper_shadow_ratio(row) ==
    LET body_top == Max2(row.open, row.close)
        total_range == row.high - row.low
    IN  IF total_range = 0 THEN Frac(0, 1)
        ELSE Frac((row.high - body_top) * 100, total_range)

\* A variant whose day2 term is min(3 - abs(day2_change), 5) * 2: the operands of
\* the subtraction are exchanged.
reversal_raw_score_exchanged(day1, day2, day3, max_upper_shadow) ==
    LET day2_change == PctChange(day2.close, day2.open)
        gap_down == PctChange(day3.open, day2.close)
        day3_change == PctChange(day3.close, day3.open)
        day1_not_engulfed == ~(day2.high >= day1.high /\ day2.low <= day1.low)
        day2_gap_down == PctChange(day2.open, day1.close)
        \* abs(day2_change) / abs(day1_change), in thousandths
        bear_contrast == (Abs(day2.close - day2.open) * day1.open * 1000)
                             \div (day2.open * Abs(day1.close - day1.open))
    IN  40 * 100000
        + Min2(3000 - Milli(FAbs(day2_change)), 5000) * 2 * 100
        + Min2(Milli(FAbs(gap_down)), 3000) * 2 * 100
        + (IF day1_not_engulfed THEN 8 * 100000 ELSE 0)
        + (IF day2_gap_down.n < 0
              THEN Min2(Milli(FAbs(day2_gap_down)), 2000) * 5 * 100 ELSE 0)
        + (IF LeH(day3_change, 300) THEN 8 * 100000
           ELSE IF LeH(day3_change, 500) THEN 4 * 100000 ELSE 0)
        + Min2(bear_contrast - 1500, 3000) * 333
        + (IF LeH(max_upper_shadow, 1000) THEN 8 * 100000
           ELSE IF LeH(max_upper_shadow, 2000) THEN 5 * 100000
           ELSE IF LeH(max_upper_shadow, 3000) THEN 2 * 100000 ELSE 0)

\* The score of a matched reversal, in units of 1/100000 point, before the clamp.
reversal_raw_score(day1, day2, day3, max_upper_shadow) ==
    LET day2_change == PctChange(day2.close, day2.open)
        gap_down == PctChange(day3.open, day2.close)
        day3_change == PctChange(day3.close, day3.open)
        day1_not_engulfed == ~(day2.high >= day1.high /\ day2.low <= day1.low)
        day2_gap_down == PctChange(day2.open, day1.close)
        \* abs(day2_change) / abs(day1_change), in thousandths
        bear_contrast == (Abs(day2.close - day2.open) * day1.open * 1000)
                             \div (day2.open * Abs(day1.close - day1.open))
    IN  40 * 100000
        + Min2(Milli(FAbs(day2_change)) - 3000, 5000) * 2 * 100
        + Min2(Milli(FAbs(gap_down)), 3000) * 2 * 100
        + (IF day1_not_engulfed THEN 8 * 100000 ELSE 0)
        + (IF day2_gap_down.n < 0
              THEN Min2(Milli(FAbs(day2_gap_down)), 2000) * 5 * 100 ELSE 0)
        + (IF LeH(day3_change, 300) THEN 8 * 100000
           ELSE IF LeH(day3_change, 500) THEN 4 * 100000 ELSE 0)
        + Min2(bear_contrast - 1500, 3000) * 333
        + (IF LeH(max_upper_shadow, 1000) THEN 8 * 100000
           ELSE IF LeH(max_upper_shadow, 2000) THEN 5 * 100000
           ELSE IF LeH(max_upper_shadow, 3000) THEN 2 * 100000 ELSE 0)

\* A variant that omits the final round(): the clamped score is passed on as
\* it stands, in units of 1/100000 point, not in whole points.
reversal_score_unrounded(day1, day2, day3, max_upper_shadow) ==
    Min2(100 * 100000, Max2(0, reversal_raw_score(day1, day2, day3, max_upper_shadow)))

\* score = min(100, max(0, score)); 'score': round(score)
reversal_score(day1, day2, day3, max_upper_shadow) ==
    RoundHalfEven(
        Min2(100 * 100000, Max2(0, reversal_raw_score(day1, day2, day3, max_upper_shadow))),
        100000)

check_reversal_pattern(d) ==
    LET cfg == reversal_config
        min_required == 3 + cfg.prior_decline_days
    IN
    IF d.isNone \/ DfLen(d) < min_required THEN NotMatched(FALSE)
    ELSE
    LET day1 == ILoc(d, -3)
        day2 == ILoc(d, -2)
        day3 == ILoc(d, -1)
        prior_days == cfg.prior_decline_days
        prior_start_idx == -3 - prior_days
    IN
    IF Abs(prior_start_idx) > DfLen(d) THEN NotMatched(FALSE)
    ELSE
    LET prior_start_close == ILoc(d, prior_start_idx).close
        prior_end_close == ILoc(d, -4).close
    IN
    IF prior_start_close = 0 THEN NotMatched(FALSE)
    ELSE
    LET prior_decline == PctChange(prior_end_close, prior_start_close) IN
    IF cfg.prior_decline_min > 0
       /\ (prior_decline.n >= 0 \/ LtH(FAbs(prior_decline), cfg.prior_decline_min))
    THEN NotMatched(FALSE)
    ELSE IF day1.open = 0 \/ day2.open = 0 \/ day3.open = 0 THEN NotMatched(FALSE)
    ELSE IF day2.close = 0 THEN NotMatched(FALSE)
    ELSE
    LET day1_change == PctChange(day1.close, day1.open)
        is_day1_bear == day1.close < day1.open
        is_day1_small == GeH(FAbs(day1_change), cfg.small_bear_min)
                         /\ LeH(FAbs(day1_change), cfg.small_bear_max)
        day2_change == PctChange(day2.close, day2.open)
        is_day2_bear == day2.close < day2.open
        is_day2_big == GeH(FAbs(day2_change), cfg.big_bear_min)
        gap_down == PctChange(day3.open, day2.close)
        day3_change == PctChange(day3.close, day3.open)
        is_day3_gap_down == LeH(gap_down, -cfg.gap_down_min)
        is_day3_bull == day3.close > day3.open
        is_day3_strong == GeH(day3_change, cfg.bull_close_min)
        \* line 241 divides by day1['close'] without a guard
        dz == day1.close = 0
        max_upper_shadow == FMax(upper_shadow_ratio(day1),
                                 FMax(upper_shadow_ratio(day2), upper_shadow_ratio(day3)))
        upper_shadow_ok == LeH(max_upper_shadow, cfg.max_upper_shadow)
        pattern_match == is_day1_bear /\ is_day1_small /\ is_day2_bear /\ is_day2_big
                         /\ is_day3_gap_down /\ is_day3_bull /\ is_day3_strong
                         /\ upper_shadow_ok
    IN
    IF pattern_match
    THEN Matched([day1_change |-> Round2(day1_change),
                  day2_change |-> Round2(day2_change),
                  day3_change |-> Round2(day3_change),
                  gap_down |-> Round2(gap_down),
                  day2_gap |-> Round2(PctChange(day2.open, day1.close)),
                  shadow |-> RoundHalfEven(max_upper_shadow.n * 10, max_upper_shadow.d),
                  engulfed |-> (day2.high >= day1.high /\ day2.low <= day1.low),
                  prior_decline |-> Round2(prior_decline),
                  score |-> reversal_score(day1, day2, day3, max_upper_shadow)], dz)
    ELSE NotMatched(dz)

----------------------------------------------------------------------------
(* Strategy 2: volume breakout *)

RECURSIVE Gcd(_, _)
Gcd(a, b) == IF b = 0 THEN a ELSE Gcd(b, a % b)
\* n/d in lowest terms (d > 0)
Reduce(n, d) == LET g == Gcd(Abs(n), d) IN Frac(n \div g, d \div g)
\* f + g, in lowest terms
FAdd(f, g) ==
    LET l == (f.d \div Gcd(f.d, g.d)) * g.d
    IN  Reduce(f.n * (l \div f.d) + g.n * (l \div g.d), l)

\* code.startswith(prefix): a code is the sequence of its digits
StartsWith(c, prefix) ==
    Len(c) >= Len(prefix) /\ \A k \in 1..Len(prefix) : c[k] = prefix[k]

\* A variant that holds every code to the main-board threshold.
_vb_is_limit_up_main_only(row, prev_close, c) ==
    LET cfg == volume_breakout_config IN
    IF prev_close = 0 THEN FALSE
    ELSE
    LET change_pct == PctChange(row.close, prev_close)
        threshold == cfg.limit_up_main_board
        total_range == row.high - row.low
    IN
    IF LtH(change_pct, threshold) THEN FALSE
    ELSE IF total_range = 0 THEN FALSE
    ELSE IF LtH(Frac(Abs(row.close - row.open), total_range), cfg.limit_up_body_ratio_min)
         THEN FALSE
    ELSE IF row.close <= row.open THEN FALSE
    ELSE TRUE

_vb_is_limit_up(row, prev_close, c) ==
    LET cfg == volume_breakout_config IN
    IF prev_close = 0 THEN FALSE
    ELSE
    LET change_pct == PctChange(row.close, prev_close)
        threshold == IF StartsWith(c, <<3>>) THEN cfg.limit_up_chinext
                     ELSE cfg.limit_up_main_board
        total_range == row.high - row.low
    IN
    IF LtH(change_pct, threshold) THEN FALSE
    ELSE IF total_range = 0 THEN FALSE
    ELSE IF LtH(Frac(Abs(row.close - row.open), total_range), cfg.limit_up_body_ratio_min)
         THEN FALSE
    ELSE IF row.close <= row.open THEN FALSE
    ELSE TRUE

RECURSIVE vb_consolidation_loop_no_break(_, _, _, _, _)
\* A variant of the loop that never breaks: a window over the threshold is
\* passed over also after a best window was found.
vb_consolidation_loop_no_break(d, consol_end, length, stop, best) ==
    LET cfg == volume_breakout_config
        consol_start == consol_end - length + 1
    IN
    IF length >= stop THEN best
    ELSE IF consol_start < 0 THEN best
    ELSE
    LET total == SumClose(d, consol_start, consol_end + 1) IN
    IF total = 0 THEN vb_consolidation_loop_no_break(d, consol_end, length + 1, stop, best)
    ELSE
    LET range_pct == Amplitude(d, consol_start, consol_end + 1) IN
    IF LeH(range_pct, cfg.consol_max_range_pct)
    THEN vb_consolidation_loop_no_break(d, consol_end, length + 1, stop,
             [none |-> FALSE, consol_start |-> consol_start, consol_end |-> consol_end,
              mean_price |-> Frac(total, length), range_pct |-> range_pct,
              length |-> length])
    ELSE vb_consolidation_loop_no_break(d, consol_end, length + 1, stop, best)

RECURSIVE vb_consolidation_loop(_, _, _, _, _)
\* the for loop of _vb_find_consolidation from `length` on, with `best` so far
vb_consolidation_loop(d, consol_end, length, stop, best) ==
    LET cfg == volume_breakout_config
        consol_start == consol_end - length + 1
    IN
    IF length >= stop THEN best
    ELSE IF consol_start < 0 THEN best
    ELSE
    LET total == SumClose(d, consol_start, consol_end + 1) IN
    IF total = 0 THEN vb_consolidation_loop(d, consol_end, length + 1, stop, best)
    ELSE
    LET range_pct == Amplitude(d, consol_start, consol_end + 1) IN
    IF LeH(range_pct, cfg.consol_max_range_pct)
    THEN vb_consolidation_loop(d, consol_end, length + 1, stop,
             [none |-> FALSE, consol_start |-> consol_start, consol_end |-> consol_end,
              mean_price |-> Frac(total, length), range_pct |-> range_pct,
              length |-> length])
    ELSE IF ~best.none THEN best
    ELSE vb_consolidation_loop(d, consol_end, length + 1, stop, best)

_vb_find_consolidation(d, limit_up_idx) ==
    LET cfg == volume_breakout_config
        consol_min_days == cfg.consol_min_days
        consol_end == limit_up_idx - 1
    IN
    IF consol_end < consol_min_days THEN None
    ELSE vb_consolidation_loop(d, consol_end, consol_min_days,
                               Min2(consol_end + 1, 80), None)

_vb_check_prior_decline(d, consol_start, consol_mean) ==
    LET cfg == volume_breakout_config
        search_start == Max2(0, consol_start - cfg.prior_lookback_days)
    IN
    IF search_start >= consol_start THEN None
    ELSE
    LET prior_high == MaxClose(d, search_start, consol_start) IN
    IF consol_mean.n = 0 THEN None
    ELSE
    LET decline_pct == Frac((prior_high * consol_mean.d - consol_mean.n) * 100, consol_mean.n)
    IN
    IF LtH(decline_pct, cfg.prior_decline_min_pct) THEN None
    ELSE [none |-> FALSE, decline_pct |-> decline_pct, prior_high |-> prior_high]

\* A variant of _linear_map without ratio = max(0, min(1, ratio)).
_linear_map_unclamped(value, low, high, score_low, score_high) ==
    IF high = low THEN (IF value >= high THEN Frac(score_high, 1) ELSE Frac(score_low, 1))
    ELSE
    LET sgn == IF high > low THEN 1 ELSE -1
        num == sgn * (value - low)
        den == sgn * (high - low)
        cnum == num
    IN  Reduce(score_low * den + cnum * (score_high - score_low), den)

\* _linear_map with value, low and high in hundredths; the result is exact
_linear_map(value, low, high, score_low, score_high) ==
    IF high = low THEN (IF value >= high THEN Frac(score_high, 1) ELSE Frac(score_low, 1))
    ELSE
    LET sgn == IF high > low THEN 1 ELSE -1
        num == sgn * (value - low)
        den == sgn * (high - low)
        \* ratio = max(0, min(1, ratio))
        cnum == Max2(0, Min2(den, num))
    IN  Reduce(score_low * den + cnum * (score_high - score_low), den)

\* the values _vb_calculate_score adds up, in the order it adds them
vb_components(detail) ==
    << _linear_map(detail.prior_decline_pct, 1500, 4000, 0, 15),
       _linear_map(detail.consol_days * 100, 2200, 6000, 0, 10),
       _linear_map(detail.limit_up_body_ratio, 60, 100, 0, 10),
       _linear_map(detail.limit_up_vol_ratio, 100, 400, 0, 10),
       IF detail.post_range_pct <= 500 THEN Frac(15, 1)
       ELSE IF detail.post_range_pct <= 1000
            THEN _linear_map(detail.post_range_pct, 1000, 500, 0, 15)
       ELSE Frac(0, 1),
       _linear_map(detail.post_consol_days * 100, 500, 1500, 0, 10),
       _linear_map(detail.break_vol_ratio, 100, 300, 0, 15),
       _linear_map(detail.break_body_ratio, 30, 90, 0, 15) >>

\* the sum of the seven components, before the clamp and the rounding
vb_raw_score(detail) ==
    LET p == vb_components(detail)
    IN  FAdd(FAdd(FAdd(FAdd(FAdd(FAdd(FAdd(p[1], p[2]), p[3]), p[4]), p[5]), p[6]), p[7]), p[8])

\* round(min(100, max(0, score)))
_vb_calculate_score(detail) ==
    LET score == vb_raw_score(detail)
        clamped == IF score.n < 0 THEN Frac(0, 1)
                   ELSE IF score.n > 100 * score.d THEN Frac(100, 1) ELSE score
    IN  RoundHalfEven(clamped.n, clamped.d)

\* the detail of a candidate that passed the whole chain (lines 508-549)
vb_detail(d, candidate_idx, consol, decline) ==
    LET n == DfLen(d)
        last == ILoc(d, -1)
        prev == ILoc(d, -2)
        candidate == ILoc(d, candidate_idx)
        prev_of_candidate == ILoc(d, candidate_idx - 1)
        post_start == candidate_idx + 1
        post_end == n - 2
        post_days == post_end - post_start + 1
        limit_up_change == PctChange(candidate.close, prev_of_candidate.close)
        body == Abs(candidate.close - candidate.open)
        total_range == candidate.high - candidate.low
        limit_up_body_ratio == IF total_range > 0 THEN Frac(body, total_range) ELSE Frac(0, 1)
        post_total == SumClose(d, post_start, post_end + 1)
        post_range_pct == IF post_total > 0
                          THEN Round2(Amplitude(d, post_start, post_end + 1)) ELSE 99900
        vol_start == Max2(0, candidate_idx - 5)
        prior_vol == SumVolume(d, vol_start, candidate_idx)
        limit_up_vol_ratio == IF prior_vol > 0
                              THEN Frac(candidate.volume * (candidate_idx - vol_start), prior_vol)
                              ELSE Frac(1, 1)
        break_vol_ratio == IF prev.volume > 0 THEN Frac(last.volume, prev.volume)
                           ELSE Frac(1, 1)
        break_total_range == last.high - last.low
        break_body == last.close - last.open
        break_body_ratio == IF break_total_range > 0 THEN Frac(break_body, break_total_range)
                            ELSE Frac(0, 1)
        fields == [prior_decline_pct |-> Round2(decline.decline_pct),
                   consol_days |-> consol.length,
                   consol_range_pct |-> Round2(consol.range_pct),
                   consol_mean_price |-> Round2(consol.mean_price),
                   limit_up_idx |-> candidate_idx,
                   limit_up_change |-> Round2(limit_up_change),
                   limit_up_body_ratio |-> Round2(limit_up_body_ratio),
                   limit_up_vol_ratio |-> Round2(limit_up_vol_ratio),
                   post_consol_days |-> post_days,
                   post_range_pct |-> post_range_pct,
                   \* line 543 divides by prev['close'] without a guard
                   break_change |-> IF prev.close = 0 THEN Inf
                                    ELSE Round2(PctChange(last.close, prev.close)),
                   break_vol_ratio |-> Round2(break_vol_ratio),
                   break_body_ratio |-> Round2(break_body_ratio),
                   break_close |-> last.close]
    IN  [f \in DOMAIN fields \cup {"score"} |->
            IF f = "score" THEN _vb_calculate_score(fields) ELSE fields[f]]

RECURSIVE vb_scan_loop_keep_latest(_, _, _, _, _)
\* A variant of the loop that replaces the best detail on an equal score too.
vb_scan_loop_keep_latest(d, c, scan_idx, max_lookback, acc) ==
    LET cfg == volume_breakout_config
        n == DfLen(d)
        last == ILoc(d, -1)
        prev == ILoc(d, -2)
        candidate_idx == n - 1 - scan_idx
        next(a) == vb_scan_loop_keep_latest(d, c, scan_idx + 1, max_lookback, a)
    IN
    IF scan_idx > max_lookback THEN acc
    ELSE IF candidate_idx < 1 THEN acc
    ELSE
    LET candidate == ILoc(d, candidate_idx)
        prev_of_candidate == ILoc(d, candidate_idx - 1)
        post_start == candidate_idx + 1
        post_end == n - 2
        post_days == post_end - post_start + 1
    IN
    IF ~_vb_is_limit_up(candidate, prev_of_candidate.close, c) THEN next(acc)
    ELSE IF post_days < cfg.post_consol_min_days THEN next(acc)
    ELSE IF \E k \in post_start..post_end : ILoc(d, k).close < candidate.open THEN next(acc)
    ELSE IF last.close <= candidate.close THEN next(acc)
    ELSE
    LET consol_result == _vb_find_consolidation(d, candidate_idx) IN
    IF consol_result.none THEN next(acc)
    ELSE
    LET decline_result == _vb_check_prior_decline(d, consol_result.consol_start,
                                                  consol_result.mean_price)
    IN
    IF decline_result.none THEN next(acc)
    ELSE
    LET detail == vb_detail(d, candidate_idx, consol_result, decline_result) IN
    next([found_pattern |-> TRUE,
          best_detail |-> IF acc.best_detail = None \/ detail.score >= acc.best_detail.score
                          THEN detail ELSE acc.best_detail,
          divzero |-> acc.divzero \/ prev.close = 0])

RECURSIVE vb_scan_loop(_, _, _, _, _)
\* the for loop over scan_idx of check_volume_breakout_pattern; acc is
\* [found_pattern, best_detail, divzero]
vb_scan_loop(d, c, scan_idx, max_lookback, acc) ==
    LET cfg == volume_breakout_config
        n == DfLen(d)
        last == ILoc(d, -1)
        prev == ILoc(d, -2)
        candidate_idx == n - 1 - scan_idx
        next(a) == vb_scan_loop(d, c, scan_idx + 1, max_lookback, a)
    IN
    IF scan_idx > max_lookback THEN acc
    ELSE IF candidate_idx < 1 THEN acc
    ELSE
    LET candidate == ILoc(d, candidate_idx)
        prev_of_candidate == ILoc(d, candidate_idx - 1)
        post_start == candidate_idx + 1
        post_end == n - 2
        post_days == post_end - post_start + 1
    IN
    IF ~_vb_is_limit_up(candidate, prev_of_candidate.close, c) THEN next(acc)
    ELSE IF post_days < cfg.post_consol_min_days THEN next(acc)
    ELSE IF \E k \in post_start..post_end : ILoc(d, k).close < candidate.open THEN next(acc)
    ELSE IF last.close <= candidate.close THEN next(acc)
    ELSE
    LET consol_result == _vb_find_consolidation(d, candidate_idx) IN
    IF consol_result.none THEN next(acc)
    ELSE
    LET decline_result == _vb_check_prior_decline(d, consol_result.consol_start,
                                                  consol_result.mean_price)
    IN
    IF decline_result.none THEN next(acc)
    ELSE
    LET detail == vb_detail(d, candidate_idx, consol_result, decline_result) IN
    next([found_pattern |-> TRUE,
          best_detail |-> IF acc.best_detail = None \/ detail.score > acc.best_detail.score
                          THEN detail ELSE acc.best_detail,
          divzero |-> acc.divzero \/ prev.close = 0])

\* A variant whose volume test is last['volume'] < prev['volume'].
check_volume_breakout_pattern_volume_lt(d, c) ==
    LET cfg == volume_breakout_config IN
    IF d.isNone \/ DfLen(d) < 50 THEN NotMatched(FALSE)
    ELSE
    LET n == DfLen(d)
        last == ILoc(d, -1)
        prev == ILoc(d, -2)
    IN
    IF last.close <= last.open THEN NotMatched(FALSE)
    ELSE IF prev.volume = 0 \/ last.volume < prev.volume THEN NotMatched(FALSE)
    ELSE
    LET max_lookback == Min2(cfg.post_consol_max_lookback, n - 30)
        acc == vb_scan_loop(d, c, 2, max_lookback,
                            [found_pattern |-> FALSE, best_detail |-> None, divzero |-> FALSE])
    IN
    IF acc.found_pattern /\ acc.best_detail # None
    THEN Matched(acc.best_detail, acc.divzero)
    ELSE NotMatched(acc.divzero)

check_volume_breakout_pattern(d, c) ==
    LET cfg == volume_breakout_config IN
    IF d.isNone \/ DfLen(d) < 50 THEN NotMatched(FALSE)
    ELSE
    LET n == DfLen(d)
        last == ILoc(d, -1)
        prev == ILoc(d, -2)
    IN
    IF last.close <= last.open THEN NotMatched(FALSE)
    ELSE IF prev.volume = 0 \/ last.volume <= prev.volume THEN NotMatched(FALSE)
    ELSE
    LET max_lookback == Min2(cfg.post_consol_max_lookback, n - 30)
        acc == vb_scan_loop(d, c, 2, max_lookback,
                            [found_pattern |-> FALSE, best_detail |-> None, divzero |-> FALSE])
    IN
    IF acc.found_pattern /\ acc.best_detail # None
    THEN Matched(acc.best_detail, acc.divzero)
    ELSE NotMatched(acc.divzero)

----------------------------------------------------------------------------
(* Strategy 3: shrink breakout *)

\* a phase's "return False, None" and "return True, detail"
Fail == [ok |-> FALSE]
Pass(detail) == [ok |-> TRUE, detail |-> detail]

_sb_is_limit_up(close, prev_close, c) ==
    LET cfg == shrink_breakout_config IN
    IF prev_close = 0 THEN FALSE
    ELSE
    LET change_pct == PctChange(close, prev_close) IN
    IF StartsWith(c, <<3, 0, 0>>) THEN GeH(change_pct, cfg.limit_up_chinext_pct)
    ELSE GeH(change_pct, cfg.limit_up_main_pct)

RECURSIVE sb_find_from_farthest(_, _, _)
\* A variant of the loop that goes on to index 1 and keeps the last bar found.
sb_find_from_farthest(d, c, i) ==
    IF i <= 0 THEN -1
    ELSE LET farther == sb_find_from_farthest(d, c, i - 1) IN
         IF farther # -1 THEN farther
         ELSE IF _sb_is_limit_up(ILoc(d, i).close, ILoc(d, i - 1).close, c) THEN i
         ELSE -1

RECURSIVE sb_find_from(_, _, _)
\* the loop of _sb_find_limit_up_day from index i downward; -1 stands for None
sb_find_from(d, c, i) ==
    IF i <= 0 THEN -1
    ELSE IF _sb_is_limit_up(ILoc(d, i).close, ILoc(d, i - 1).close, c) THEN i
    ELSE sb_find_from(d, c, i - 1)

_sb_find_limit_up_day(d, c) == sb_find_from(d, c, DfLen(d) - 7)

_sb_check_post_consolidation(d, limit_up_idx) ==
    LET cfg == shrink_breakout_config
        n == DfLen(d)
        signal_idx == n - 1
        start == limit_up_idx + 1
        end == signal_idx
    IN
    IF end - start < cfg.consolidation2_min_days THEN Fail
    ELSE
    LET limit_up_close == ILoc(d, limit_up_idx).close
        \* close < limit_up_close - limit_up_close * tolerance / 100
        below(k) == ILoc(d, k).close * 100
                      < limit_up_close * 100
                        - limit_up_close * cfg.consolidation2_support_tolerance
    IN
    IF \E k \in start..(end - 1) : below(k) THEN Fail
    ELSE
    LET max_close == MaxClose(d, start, end)
        min_close == MinClose(d, start, end)
    IN
    IF SumClose(d, start, end) = 0 THEN Fail
    ELSE
    LET amplitude == Amplitude(d, start, end) IN
    IF GtH(amplitude, cfg.consolidation2_max_amplitude) THEN Fail
    ELSE IF ILoc(d, signal_idx).close <= max_close THEN Fail
    ELSE Pass([post_days |-> end - start, post_amplitude |-> Round2(amplitude),
               post_max_close |-> max_close, post_min_close |-> min_close])

RECURSIVE sb_pre_loop(_, _, _, _)
\* the for loop of _sb_check_pre_consolidation from `start` downward; -1 stands for None
sb_pre_loop(d, best_end, start, best_start) ==
    LET cfg == shrink_breakout_config IN
    IF start < 0 THEN best_start
    ELSE IF SumClose(d, start, best_end) = 0 THEN best_start
    ELSE IF LeH(Amplitude(d, start, best_end), cfg.consolidation1_max_amplitude)
         THEN sb_pre_loop(d, best_end, start - 1, start)
    ELSE best_start

_sb_check_pre_consolidation(d, limit_up_idx, c) ==
    LET cfg == shrink_breakout_config
        min_days == cfg.consolidation1_min_days
    IN
    IF limit_up_idx < min_days THEN Fail
    ELSE
    LET best_end == limit_up_idx
        best_start == sb_pre_loop(d, best_end, limit_up_idx - min_days, -1)
    IN
    IF best_start = -1 THEN Fail
    ELSE
    LET consolidation_days == best_end - best_start IN
    IF consolidation_days < min_days THEN Fail
    ELSE IF \E i \in (best_start + 1)..(best_end - 1) :
               _sb_is_limit_up(ILoc(d, i).close, ILoc(d, i - 1).close, c)
         THEN Fail
    ELSE Pass([consolidation1_start |-> best_start,
               consolidation1_days |-> consolidation_days,
               consolidation1_amplitude |-> Round2(Amplitude(d, best_start, best_end))])

\* A variant that asks for a decline over the minimum.
_sb_check_prior_decline_exclusive(d, consolidation_start) ==
    LET cfg == shrink_breakout_config
        lookback == Min2(consolidation_start, 60)
    IN
    IF lookback < 5 THEN Fail
    ELSE
    LET search_start == consolidation_start - lookback
        max_close == MaxClose(d, search_start, consolidation_start)
        end_close == ILoc(d, consolidation_start).close
    IN
    IF max_close = 0 THEN Fail
    ELSE
    LET decline_pct == Frac((max_close - end_close) * 100, max_close) IN
    IF LeH(decline_pct, cfg.min_decline_pct) THEN Fail
    ELSE Pass([decline_pct |-> Round2(decline_pct)])

_sb_check_prior_decline(d, consolidation_start) ==
    LET cfg == shrink_breakout_config
        lookback == Min2(consolidation_start, 60)
    IN
    IF lookback < 5 THEN Fail
    ELSE
    LET search_start == consolidation_start - lookback
        max_close == MaxClose(d, search_start, consolidation_start)
        end_close == ILoc(d, consolidation_start).close
    IN
    IF max_close = 0 THEN Fail
    ELSE
    LET decline_pct == Frac((max_close - end_close) * 100, max_close) IN
    IF LtH(decline_pct, cfg.min_decline_pct) THEN Fail
    ELSE Pass([decline_pct |-> Round2(decline_pct)])

\* A variant without the test that the last bar is bullish.
_sb_check_signal_any_colour(d) ==
    LET cfg == shrink_breakout_config
        n == DfLen(d)
        signal_idx == n - 1
        row == ILoc(d, signal_idx)
        ma_short_period == cfg.vol_ma_short
        ma_long_period == cfg.vol_ma_long
    IN
    IF n < ma_long_period THEN Fail
    ELSE
    LET sum_short == SumVolume(d, n - ma_short_period, n)
        sum_long == SumVolume(d, n - ma_long_period, n)
    IN
    IF sum_long = 0 THEN Fail
    \* vol_ma_short >= vol_ma_long
    ELSE IF sum_short * ma_long_period >= sum_long * ma_short_period THEN Fail
    ELSE Pass([signal_change |-> IF row.open = 0 THEN Inf
                                 ELSE Round2(PctChange(row.close, row.open)),
               vol_ma_short |-> RoundHalfEven(sum_short, ma_short_period),
               vol_ma_long |-> RoundHalfEven(sum_long, ma_long_period),
               \* round(vol_ratio, 4), in ten-thousandths
               vol_ratio |-> RoundHalfEven(sum_short * ma_long_period * 10000,
                                           sum_long * ma_short_period),
               signal_idx |-> signal_idx])

\* A variant whose shrink test is vol_ma_short > vol_ma_long.
_sb_check_signal_inclusive(d) ==
    LET cfg == shrink_breakout_config
        n == DfLen(d)
        signal_idx == n - 1
        row == ILoc(d, signal_idx)
        ma_short_period == cfg.vol_ma_short
        ma_long_period == cfg.vol_ma_long
    IN
    IF row.close <= row.open THEN Fail
    ELSE IF n < ma_long_period THEN Fail
    ELSE
    LET sum_short == SumVolume(d, n - ma_short_period, n)
        sum_long == SumVolume(d, n - ma_long_period, n)
    IN
    IF sum_long = 0 THEN Fail
    ELSE IF sum_short * ma_long_period > sum_long * ma_short_period THEN Fail
    ELSE Pass([signal_change |-> IF row.open = 0 THEN Inf
                                 ELSE Round2(PctChange(row.close, row.open)),
               vol_ma_short |-> RoundHalfEven(sum_short, ma_short_period),
               vol_ma_long |-> RoundHalfEven(sum_long, ma_long_period),
               \* round(vol_ratio, 4), in ten-thousandths
               vol_ratio |-> RoundHalfEven(sum_short * ma_long_period * 10000,
                                           sum_long * ma_short_period),
               signal_idx |-> signal_idx])

\* _sb_check_signal; its result also says whether line 724 divided by a zero open
_sb_check_signal(d) ==
    LET cfg == shrink_breakout_config
        n == DfLen(d)
        signal_idx == n - 1
        row == ILoc(d, signal_idx)
        ma_short_period == cfg.vol_ma_short
        ma_long_period == cfg.vol_ma_long
    IN
    IF row.close <= row.open THEN Fail
    ELSE IF n < ma_long_period THEN Fail
    ELSE
    LET sum_short == SumVolume(d, n - ma_short_period, n)
        sum_long == SumVolume(d, n - ma_long_period, n)
    IN
    IF sum_long = 0 THEN Fail
    \* vol_ma_short >= vol_ma_long
    ELSE IF sum_short * ma_long_period >= sum_long * ma_short_period THEN Fail
    ELSE Pass([signal_change |-> IF row.open = 0 THEN Inf
                                 ELSE Round2(PctChange(row.close, row.open)),
               vol_ma_short |-> RoundHalfEven(sum_short, ma_short_period),
               vol_ma_long |-> RoundHalfEven(sum_long, ma_long_period),
               \* round(vol_ratio, 4), in ten-thousandths
               vol_ratio |-> RoundHalfEven(sum_short * ma_long_period * 10000,
                                           sum_long * ma_short_period),
               signal_idx |-> signal_idx])

\* A variant that gives the 8 points to a one-word bar only.
_sb_calculate_score_one_word_only(details) ==
    LET extra_days == details.consolidation1_days - 22
        extra_decline == details.decline_pct - 1500
        amp == details.post_amplitude
        vol_ratio == details.vol_ratio
        change == details.signal_change
        score ==
            40
            + (IF extra_days > 0 THEN Min2((extra_days \div 10) * 3, 10) ELSE 0)
            + (IF extra_decline > 0 THEN Min2((extra_decline \div 500) * 3, 10) ELSE 0)
            + (IF details.limit_up_type = "one_word" THEN 8 ELSE 5)
            + (IF amp < 500 THEN 8 ELSE IF amp < 800 THEN 5 ELSE IF amp < 1000 THEN 3 ELSE 0)
            + (IF vol_ratio < 5000 THEN 10
               ELSE IF vol_ratio < 6000 THEN 8
               ELSE IF vol_ratio < 7000 THEN 6
               ELSE IF vol_ratio < 8000 THEN 4
               ELSE IF vol_ratio < 9000 THEN 2 ELSE 0)
            + (IF 200 <= change /\ change <= 500 THEN 8
               ELSE IF 500 < change /\ change <= 800 THEN 5 ELSE 0)
            + 6
    IN  Min2(100, Max2(0, score))

_sb_calculate_score(details) ==
    LET extra_days == details.consolidation1_days - 22
        extra_decline == details.decline_pct - 1500
        amp == details.post_amplitude
        vol_ratio == details.vol_ratio
        change == details.signal_change
        score ==
            40
            + (IF extra_days > 0 THEN Min2((extra_days \div 10) * 3, 10) ELSE 0)
            + (IF extra_decline > 0 THEN Min2((extra_decline \div 500) * 3, 10) ELSE 0)
            + (IF details.limit_up_type \in {"one_word", "t_shape"} THEN 8 ELSE 5)
            + (IF amp < 500 THEN 8 ELSE IF amp < 800 THEN 5 ELSE IF amp < 1000 THEN 3 ELSE 0)
            + (IF vol_ratio < 5000 THEN 10
               ELSE IF vol_ratio < 6000 THEN 8
               ELSE IF vol_ratio < 7000 THEN 6
               ELSE IF vol_ratio < 8000 THEN 4
               ELSE IF vol_ratio < 9000 THEN 2 ELSE 0)
            + (IF 200 <= change /\ change <= 500 THEN 8
               ELSE IF 500 < change /\ change <= 800 THEN 5 ELSE 0)
            + 6
    IN  Min2(100, Max2(0, score))

\* the five phases and the summary, on a series that passed the length test
sb_phases(d, c) ==
    LET signal == _sb_check_signal(d) IN
    IF ~signal.ok THEN NotMatched(FALSE)
    ELSE
    LET dz == ILoc(d, -1).open = 0
        limit_up_idx == _sb_find_limit_up_day(d, c)
    IN
    IF limit_up_idx = -1 THEN NotMatched(dz)
    ELSE
    LET post == _sb_check_post_consolidation(d, limit_up_idx) IN
    IF ~post.ok THEN NotMatched(dz)
    ELSE
    LET pre == _sb_check_pre_consolidation(d, limit_up_idx, c) IN
    IF ~pre.ok THEN NotMatched(dz)
    ELSE
    LET decline == _sb_check_prior_decline(d, pre.detail.consolidation1_start) IN
    IF ~decline.ok THEN NotMatched(dz)
    ELSE
    LET limit_up_row == ILoc(d, limit_up_idx)
        prev_close == ILoc(d, limit_up_idx - 1).close
        limit_up_change == PctChange(limit_up_row.close, prev_close)
        limit_up_type ==
            IF limit_up_row.open = limit_up_row.close /\ limit_up_row.close = limit_up_row.high
            THEN "one_word"
            ELSE IF limit_up_row.open = limit_up_row.low /\ limit_up_row.close = limit_up_row.high
            THEN "t_shape"
            ELSE "ordinary"
        fields == [signal_change |-> signal.detail.signal_change,
                   vol_ma_short |-> signal.detail.vol_ma_short,
                   vol_ma_long |-> signal.detail.vol_ma_long,
                   vol_ratio |-> signal.detail.vol_ratio,
                   signal_idx |-> signal.detail.signal_idx,
                   post_days |-> post.detail.post_days,
                   post_amplitude |-> post.detail.post_amplitude,
                   post_max_close |-> post.detail.post_max_close,
                   post_min_close |-> post.detail.post_min_close,
                   consolidation1_start |-> pre.detail.consolidation1_start,
                   consolidation1_days |-> pre.detail.consolidation1_days,
                   consolidation1_amplitude |-> pre.detail.consolidation1_amplitude,
                   decline_pct |-> decline.detail.decline_pct,
                   limit_up_idx |-> limit_up_idx,
                   limit_up_change |-> Round2(limit_up_change),
                   limit_up_type |-> limit_up_type]
    IN  Matched([f \in DOMAIN fields \cup {"score"} |->
                    IF f = "score" THEN _sb_calculate_score(fields) ELSE fields[f]], dz)

\* A variant whose length test asks for 50 bars, as the volume-breakout one does.
check_shrink_breakout_pattern_min50(d, c) ==
    IF d.isNone \/ DfLen(d) < 50 THEN NotMatched(FALSE) ELSE sb_phases(d, c)

check_shrink_breakout_pattern(d, c) ==
    IF d.isNone \/ DfLen(d) < 60 THEN NotMatched(FALSE) ELSE sb_phases(d, c)

----------------------------------------------------------------------------
(* Input series.  The series the detectors are run on are cut from one     *)
(* parametrised chart: a prior high, a 22-bar consolidation stepping down  *)
(* to 1000, a limit-up bar, five pull-back bars ending in a small and a    *)
(* large bearish bar, and a bullish last bar.                              *)

\* The longest series and the number of trailing bars a zero may be planted in.
MaxBars == 61
ZeroSpan == 9

Rep(k, bar) == [i \in 1..k |-> bar]
FlatBar(p, v) == Bar(p, p, p, p, v)
\* a bar without shadows
Candle(o, c, v) == Bar(o, Max2(o, c), Min2(o, c), c, v)

\* p = [high, lu, d1, lastvol]: the prior high, the limit-up bar's close, day1's
\* body and the last bar's volume
Chart(p) ==
    Rep(MaxBars - 29, FlatBar(p.high, 1000))
    \o Rep(10, FlatBar(1150, 1000)) \o Rep(6, FlatBar(1080, 1000))
    \o Rep(6, FlatBar(1000, 1000))
    \o << Candle(1000, p.lu, 3000) >>
    \o << FlatBar(p.lu + 20, 1000), FlatBar(p.lu + 20, 400), FlatBar(p.lu + 10, 400),
          Candle(p.lu + 10 + p.d1, p.lu + 10, 400),
          Candle(p.lu + 50, p.lu + 5, 400),
          Candle(p.lu, p.lu + 30, p.lastvol) >>

\* df.tail(n): the last n rows, all of them when there are fewer
DfTail(rows, n) == SubSeq(rows, Max2(1, Len(rows) - n + 1), Len(rows))

ChartParams ==
    [high : {1300, 1400, 1800}, lu : {1100, 1200}, d1 : {0, 10}, lastvol : {400, 500, 9000}]

\* the bar with a zero planted: every such bar still has low <= open, close <= high
Planted(bar, kind) ==
    CASE kind = "zero_open" -> [bar EXCEPT !.open = 0, !.low = 0]
      [] kind = "zero_close" -> [bar EXCEPT !.close = 0, !.low = 0]
      [] kind = "zero_bar" -> Bar(0, 0, 0, 0, bar.volume)
      [] kind = "zero_volume" -> [bar EXCEPT !.volume = 0]
ZeroKinds == {"zero_open", "zero_close", "zero_bar", "zero_volume"}
\* rows with the bar `back` places from the end replaced
Plant(rows, back, kind) ==
    [rows EXCEPT ![Len(rows) - back + 1] = Planted(rows[Len(rows) - back + 1], kind)]

\* symbol codes, as digit sequences: main board, ChiNext 300xxx and ChiNext 301xxx
Codes == {<<6, 0, 0>>, <<3, 0, 0>>, <<3, 0, 1>>}

----------------------------------------------------------------------------
(* The detectors, run on one series (screen_single_stock's three calls,    *)
(* taken in any order).                                                    *)

Detectors == {"reversal", "volume_breakout", "shrink_breakout"}

Pending == [done |-> FALSE]
Returned(r) ==
    [done |-> TRUE, match |-> r.match, detail |-> r.detail, divzero |-> r.divzero,
     raised |-> r.raised]

\* the series lengths run: around each detector's minimum, and the longest
Lengths == {24, 25, 49, 50, 59, 60, MaxBars}

\* the chart a zero is planted in
BaseChart == [high |-> 1400, lu |-> 1100, d1 |-> 10, lastvol |-> 500]

\* the cloud screener as constructed (__init__) and not run
CloudIdle ==
    /\ bs_logged_in = FALSE
    /\ bs_calls = << >>
    /\ run_pc = "idle"
    /\ run_left = 0
    /\ run_hits = 0
    /\ files_written = << >>

\* no reply received yet
NoResponse == [stop_reason |-> "none", content |-> << >>]

\* the agent runner not started
AgentIdle ==
    /\ messages = << >>
    /\ response = NoResponse
    /\ iteration = 0
    /\ api_calls = 0
    /\ agent_pc = "idle"
    /\ saved_reports = << >>
    /\ results_file = FALSE

\* the scan's state, unused while a single series is evaluated
ScanIdle ==
    /\ stocks = << >>
    /\ feed = << >>
    /\ mode = "sequential"
    /\ pc = "detectors"
    /\ todo = {}
    /\ fault = << >>
    /\ detectors_run = << >>
    /\ checked = << >>
    /\ reversal_results = << >>
    /\ volume_results = << >>
    /\ shrink_results = << >>
    /\ hit_map = << >>
    /\ multi_listing = << >>
    /\ ranked = << >>
    /\ reports = 0

\* the series with its last bar opening 10 over its own close
OpensOverClose(rows) ==
    LET last == rows[Len(rows)] IN
    [rows EXCEPT ![Len(rows)] =
        Bar(last.close + 10, last.close + 10, last.close, last.close, last.volume)]

DetInit ==
    /\ \/ \E p \in ChartParams, n \in Lengths : df = DataFrame(DfTail(Chart(p), n))
       \/ \E n \in {50, 60, MaxBars} :
             df = DataFrame(OpensOverClose(DfTail(Chart(BaseChart), n)))
       \/ \E n \in {25, 50, 60}, back \in 1..ZeroSpan, kind \in ZeroKinds :
             df = DataFrame(Plant(DfTail(Chart(BaseChart), n), back, kind))
       \/ df = NoneDf
    /\ code \in Codes
    /\ result = [x \in Detectors |-> Pending]
    /\ ScanIdle
    /\ CloudIdle
    /\ AgentIdle

\* A variant in which the detector drops the bar it has read from the series.
EvalReversal_consuming ==
    /\ pc = "detectors"
    /\ ~result.reversal.done
    /\ result' = [result EXCEPT !.reversal = Returned(check_reversal_pattern(df))]
    /\ df' = IF df.isNone \/ DfLen(df) = 0 THEN df
             ELSE DataFrame(SubSeq(df.rows, 1, DfLen(df) - 1))
    /\ UNCHANGED <<code, pc, scanVars, listVars, repVars, cloudVars, agentVars>>

EvalReversal ==
    /\ pc = "detectors"
    /\ ~result.reversal.done
    /\ result' = [result EXCEPT !.reversal = Returned(check_reversal_pattern(df))]
    /\ UNCHANGED <<df, code, pc, scanVars, listVars, repVars, cloudVars, agentVars>>

EvalVolumeBreakout ==
    /\ pc = "detectors"
    /\ ~result.volume_breakout.done
    /\ result' = [result EXCEPT
                     !.volume_breakout = Returned(check_volume_breakout_pattern(df, code))]
    /\ UNCHANGED <<df, code, pc, scanVars, listVars, repVars, cloudVars, agentVars>>

EvalShrinkBreakout ==
    /\ pc = "detectors"
    /\ ~result.shrink_breakout.done
    /\ result' = [result EXCEPT
                     !.shrink_breakout = Returned(check_shrink_breakout_pattern(df, code))]
    /\ UNCHANGED <<df, code, pc, scanVars, listVars, repVars, cloudVars, agentVars>>

DetNext == EvalReversal \/ EvalVolumeBreakout \/ EvalShrinkBreakout

SpecDet == DetInit /\ [][DetNext]_vars

----------------------------------------------------------------------------
(* The reversal detector on series whose last bars sit on, just inside and  *)
(* just outside each of its thresholds.  Prices are whole numbers of the    *)
(* price unit; on every series drawn here the float arithmetic of the code  *)
(* and the exact arithmetic of the model agree on every comparison and on   *)
(* the rounded score.                                                       *)

\* the close of the bar before day1: -3.0%, -2.9% and +3.0% from close[len-25] = 1000
PriorEnds == {970, 971, 1030}
\* day1 opens at 1000: -0.2%, -0.3%, -2.0%, -2.1%, and a bullish +0.3%
Day1Closes == {998, 997, 980, 979, 1003}
\* day2 as <<open, close>>: -2.9%, -3.0%, -4%, the same close from a higher open,
\* -8%, -9%, a bar that opens below day1's close, and a bullish +3.0%
Day2Bars == {<<1000, 971>>, <<1000, 970>>, <<1000, 960>>, <<1010, 960>>, <<1000, 920>>,
             <<1000, 910>>, <<975, 905>>, <<1000, 1030>>}
\* day3 as <<open, high, close>>: +1.0% and just under it, an upper shadow of 30%
\* and just over it, an open at, below and above a day2 close of 970, a bearish bar
Day3Bars == {<<900, 909, 909>>, <<900, 908, 908>>, <<900, 1000, 970>>, <<900, 1001, 970>>,
             <<970, 1000, 1000>>, <<969, 1000, 1000>>, <<971, 1000, 1000>>,
             <<900, 900, 890>>}
RevLengths == {25, 26}

RevChart(n, prior_end, d1c, d2, d3) ==
    Rep(n - 4, FlatBar(1000, 1000))
    \o << FlatBar(prior_end, 1000), Candle(1000, d1c, 1000), Candle(d2[1], d2[2], 1000),
          Bar(d3[1], d3[2], Min2(d3[1], d3[3]), d3[3], 1000) >>

RevInit ==
    /\ \E n \in RevLengths, pe \in PriorEnds, d1c \in Day1Closes,
          d2 \in Day2Bars, d3 \in Day3Bars :
            df = DataFrame(RevChart(n, pe, d1c, d2, d3))
    /\ code = <<6, 0, 0>>
    /\ result = [x \in Detectors |-> Pending]
    /\ ScanIdle
    /\ CloudIdle
    /\ AgentIdle

RevNext == EvalReversal

SpecRev == RevInit /\ [][RevNext]_vars

----------------------------------------------------------------------------
(* The two breakout detectors on series with up to two limit-up bars in    *)
(* the lookback window, with limit-up bars on and off each threshold, and  *)
(* with the last bar's volume on and off the volume conditions.            *)

\* a limit-up candidate as <<shape, gain>> over the previous close prevc: a bar
\* without shadows, a bar of body ratio 90/150 and 90/151, a bearish bar that
\* closes at the gain, and a bar of range zero
CandidateBar(shape, prevc, vol) ==
    LET c == prevc + shape[2] IN
    CASE shape[1] = "full" -> Candle(prevc, c, vol)
      [] shape[1] = "body60" -> Bar(c - 90, c + 55, c - 95, c, vol)
      [] shape[1] = "body59" -> Bar(c - 90, c + 56, c - 95, c, vol)
      [] shape[1] = "bear" -> Bar(c + 105, c + 105, c, c, vol)
      [] shape[1] = "oneword" -> Bar(c, c, c, c, vol)

\* the bars before the first limit-up bar: a prior high, then 27 bars that are
\* flat, or whose 8 oldest closes stand 15.5% above the rest
BaseBars(base) ==
    Rep(28, FlatBar(1400, 1000))
    \o (IF base = "spike"
        THEN Rep(8, FlatBar(1155, 1000)) \o Rep(19, FlatBar(1000, 1000))
        ELSE Rep(27, FlatBar(1000, 1000)))

\* the post-consolidation bars: "hold" closes 20 over the near limit-up bar's
\* close, "high" 100 over it, "floor" one unit under that bar's open
PostBars(near_bar, post) ==
    [k \in 1..Len(post) |->
        IF post[k] = "floor" THEN FlatBar(near_bar.open - 1, 400)
        ELSE IF post[k] = "high" THEN FlatBar(near_bar.close + 100, 400)
        ELSE FlatBar(near_bar.close + 20, 400)]

\* far: << >> or <<shape, volume>>; near: <<shape, volume>>; last: <<offset of the
\* close from the near limit-up bar's close, volume>>
Chart2(far, near, base, post, last) ==
    LET far_bar == IF far = << >> THEN FlatBar(1000, 1000)
                   ELSE CandidateBar(far[1], 1000, far[2])
        near_bar == CandidateBar(near[1], far_bar.close, near[2])
    IN  BaseBars(base)
        \o << far_bar >> \o Rep(3, FlatBar(far_bar.close, 1000))
        \o << near_bar >> \o PostBars(near_bar, post)
        \o << Candle(near_bar.close - 20, near_bar.close + last[1], last[2]) >>

FarBars == {<< >>, << <<"full", 100>>, 1000 >>, << <<"full", 100>>, 3000 >>}
NearBars == {<<shape, vol>> : shape \in {<<"full", 110>>, <<"body60", 110>>},
                             vol \in {1000, 4000}}
Posts == {Rep(4, "hold"), Rep(5, "hold"), [Rep(5, "hold") EXCEPT ![3] = "floor"],
          [Rep(5, "hold") EXCEPT ![2] = "high"], Rep(6, "hold")}
Lasts == {<<30, 500>>, <<0, 500>>, <<30, 1300>>}
\* gains of 9.5%, 9.4%, 19.5% and 19.4% over a previous close of 1000
EdgeShapes ==
    {<<"full", 95>>, <<"full", 94>>, <<"full", 195>>, <<"full", 194>>,
     <<"body60", 95>>, <<"body59", 95>>, <<"bear", 95>>, <<"oneword", 95>>,
     <<"body60", 195>>, <<"body59", 195>>, <<"bear", 195>>, <<"oneword", 195>>}
\* the last bar's volume: the previous bar's 400 and one more; one under, on and
\* over the volume that makes the 5-bar average equal the 10-bar average
LastVolumes == {400, 401, 5399, 5400, 5401}
LastBarKinds == {"bullish", "bearish", "prev_volume_zero"}

\* the chart with the last bar turned bearish, or the bar before it emptied of volume
WithLastBar(rows, kind) ==
    LET last == rows[Len(rows)] IN
    CASE kind = "bullish" -> rows
      [] kind = "bearish" ->
            [rows EXCEPT ![Len(rows)] = Candle(last.close, last.open, last.volume)]
      [] kind = "prev_volume_zero" -> Plant(rows, 2, "zero_volume")

BrkCodes == {<<6, 0, 0>>, <<3, 0, 1>>}

BrkInit ==
    /\ \/ \E far \in FarBars, near \in NearBars, base \in {"flat", "spike"},
             post \in Posts, last \in Lasts :
             df = DataFrame(Chart2(far, near, base, post, last))
       \/ \E shape \in EdgeShapes :
             df = DataFrame(Chart2(<< >>, <<shape, 3000>>, "flat",
                                   Rep(5, "hold"), <<30, 500>>))
       \/ df = DataFrame(Plant(Chart2(<< >>, << <<"full", 110>>, 3000 >>, "flat",
                                      Rep(5, "hold"), <<30, 500>>), 8, "zero_close"))
       \/ \E v \in LastVolumes, kind \in LastBarKinds :
             df = DataFrame(WithLastBar(
                      DfTail(Chart([BaseChart EXCEPT !.lastvol = v]), 60), kind))
    /\ code \in BrkCodes
    /\ result = [x \in Detectors |-> Pending]
    /\ ScanIdle
    /\ CloudIdle
    /\ AgentIdle

BrkNext == EvalVolumeBreakout \/ EvalShrinkBreakout

SpecBrk == BrkInit /\ [][BrkNext]_vars

----------------------------------------------------------------------------
(* The shrink-breakout detector on series built phase by phase: a prior    *)
(* high, an optional dip bar, a consolidation at 1000, a limit-up bar, the *)
(* bars after it and a last bar.  The series sit on and around the         *)
(* thresholds of each phase and in each tier of the score.                 *)

\* the limit-up bar closing at c over a previous close of 1000
LimitUpBar(shape, c, vol) ==
    CASE shape = "one_word" -> Bar(c, c, c, c, vol)
      [] shape = "t_shape" -> Bar(1000, c, 1000, c, vol)
      [] shape = "ordinary" -> Bar(1000, c + 5, 995, c, vol)

\* p = [head, high, dip, first, w, shape, lu, post, last, lastvol]:
\*   head bars closing at high, a dip bar (none if 0), w consolidation bars the
\*   first of which closes at `first` and the others at 1000, the limit-up bar
\*   closing at lu, the bars after it closing at lu + post[k] (the last four of
\*   them on a volume of 400, the others of 1000), and the last bar opening at
\*   lu + last[1] and closing at lu + last[2] on volume lastvol
ShrChart(p) ==
    Rep(p.head, FlatBar(p.high, 1000))
    \o (IF p.dip = 0 THEN << >> ELSE << FlatBar(p.dip, 1000) >>)
    \o << FlatBar(p.first, 1000) >> \o Rep(p.w - 1, FlatBar(1000, 1000))
    \o << LimitUpBar(p.shape, p.lu, 3000) >>
    \o [k \in 1..Len(p.post) |->
           FlatBar(p.lu + p.post[k], IF k > Len(p.post) - 4 THEN 400 ELSE 1000)]
    \o << Candle(p.lu + p.last[1], p.lu + p.last[2], p.lastvol) >>

\* a series that matches: 23% under the prior high, 22 bars, a 10% limit-up
ShrBase ==
    [head |-> 32, high |-> 1300, dip |-> 0, first |-> 1000, w |-> 22,
     shape |-> "ordinary", lu |-> 1100, post |-> <<10, 10, 10, 10, 10>>,
     last |-> <<0, 40>>, lastvol |-> 500]

\* limit-up closes: gains of 9.8%, 9.7%, 19.8% and 19.7% over 1000
LimitUpCloses == {1098, 1097, 1198, 1197}
\* the bars after the limit-up bar, as offsets of their closes from its close:
\* level, one bar under the close, amplitudes in each tier of the score and
\* over 10% and of 10% sharp, a close that the last bar only equals, and a second limit-up bar
\* five bars before the last one
PostKinds ==
    {<<10, 10, 10, 10, 10>>, <<10, 10, -1, 10, 10>>, <<0, 0, 0, 0, 0, 0>>,
     <<0, 60, 60, 60, 60>>, <<0, 100, 100, 100, 100>>, <<0, 121, 121, 121, 121>>,
     <<0, 120, 120, 120, 120, 120>>,
     <<0, 0, 0, 130, 0>>,
     <<0, 0, 0, 108, 110, 110, 110, 110, 110>>}
\* the last bar: its open and close as offsets from the limit-up close
LastBars == {<<0, 40>>, <<100, 130>>, <<60, 130>>, <<30, 130>>, <<130, 130>>, <<140, 130>>}
\* the last bar's volume: one per tier of the volume ratio, and one over the mean
ShrLastVolumes == {500, 1100, 1500, 2200, 3000, 4500, 6000}
\* the prior high and its length: declines of 15% sharp (with `first` 1020),
\* just under it, and in each tier of the score; 1 to 6 bars before the start
Highs == {1200, 1199, 1250, 1300, 1430, 1700}
Heads == {1, 3, 4, 5, 6}
\* the dip bar: none, one the consolidation takes in, one it stops at
Dips == {0, 900, 840}
ConsolidationDays == {21, 22, 23, 32, 52}
ShrCodes == {<<6, 0, 0>>, <<3, 0, 0>>, <<3, 0, 1>>}

ShrParams ==
    \* the limit-up threshold, per code
    {[ShrBase EXCEPT !.lu = c, !.last = <<100, 130>>] : c \in LimitUpCloses}
    \* the bars after the limit-up bar, and the last bar over them
    \cup {[ShrBase EXCEPT !.post = q, !.last = l] : q \in PostKinds, l \in LastBars}
    \* the consolidation and the bar before it
    \cup {[ShrBase EXCEPT !.w = w, !.dip = d, !.head = 54 - w] :
             w \in ConsolidationDays, d \in Dips}
    \* the prior decline: its size and the bars there are to look back on
    \cup {[ShrBase EXCEPT !.high = h, !.first = f, !.head = k, !.w = 60 - k] :
             h \in Highs \cup {0}, f \in {1000, 1020}, k \in Heads}
    \* the tiers of the score
    \cup {[ShrBase EXCEPT !.high = h, !.w = w, !.head = 54 - w, !.shape = sh,
                          !.lastvol = v] :
             h \in Highs, w \in {22, 32, 52}, sh \in {"one_word", "t_shape", "ordinary"},
             v \in ShrLastVolumes}

ShrInit ==
    /\ \E p \in ShrParams : df = DataFrame(ShrChart(p))
    /\ code \in ShrCodes
    /\ result = [x \in Detectors |-> Pending]
    /\ ScanIdle
    /\ CloudIdle
    /\ AgentIdle

ShrNext == EvalShrinkBreakout

SpecShr == ShrInit /\ [][ShrNext]_vars

----------------------------------------------------------------------------
(* The scan: the data collaborator, get_stock_history, screen_single_stock *)
(* and run(), as the sequential loop of the cloud screener and as the      *)
(* thread pool of the local one.                                           *)

\* the symbols get_stock_list may deliver, in its order
StockPool == << <<6, 0, 0>>, <<0, 0, 2>>, <<3, 0, 1>>, <<3, 0, 0>>, <<6, 0, 1>> >>
\* the largest universe scanned
MaxStocks == 3

Range(seq) == {seq[i] : i \in DOMAIN seq}

\* the chart the market holds for each symbol
ChartOf(s) ==
    CASE s = <<6, 0, 0>> -> BaseChart
      [] s = <<0, 0, 2>> -> [high |-> 1800, lu |-> 1100, d1 |-> 0, lastvol |-> 500]
      [] s = <<3, 0, 1>> -> BaseChart
      [] s = <<3, 0, 0>> -> [high |-> 1300, lu |-> 1200, d1 |-> 0, lastvol |-> 9000]
      [] OTHER -> [high |-> 1300, lu |-> 1100, d1 |-> 10, lastvol |-> 400]

\* self.history_days
history_days == 200

\* what the data collaborator may do when asked for a symbol's bars
FeedKinds == {"ok", "error", "exception", "short", "invalid_rows"}
Modes == {"sequential", "concurrent"}

RawRow(bar, numeric) == [bar |-> bar, numeric |-> numeric]
RawRows(rows, invalid) ==
    [i \in 1..Len(rows) |-> RawRow(rows[i], i > invalid)]

\* The collaborator's answer: it raises, reports an error, or delivers rows;
\* a row whose fields do not parse as numbers is dropped by dropna().
\*   ok            60 rows, all numeric
\*   short         27 rows, all numeric
\*   invalid_rows  31 rows of which the first 4 are not numeric
Response(s, kind) ==
    [raises |-> kind = "exception",
     failed |-> kind = "error",
     data_list |->
        CASE kind = "ok" -> RawRows(DfTail(Chart(ChartOf(s)), 60), 0)
          [] kind = "short" -> RawRows(DfTail(Chart(ChartOf(s)), 27), 0)
          [] kind = "invalid_rows" -> RawRows(DfTail(Chart(ChartOf(s)), 31), 4)
          [] OTHER -> << >>]

\* A variant whose second length test asks for 25 rows only.
clean_history_min25(data_list) ==
    LET valid == SelectSeq(data_list, LAMBDA r : r.numeric) IN
    IF Len(valid) < 25 THEN NoneDf
    ELSE DataFrame(DfTail([i \in 1..Len(valid) |-> valid[i].bar], history_days))

\* pd.to_numeric(errors='coerce'), dropna(), the second length test and tail()
clean_history(data_list) ==
    LET valid == SelectSeq(data_list, LAMBDA r : r.numeric) IN
    IF Len(valid) < 30 THEN NoneDf
    ELSE DataFrame(DfTail([i \in 1..Len(valid) |-> valid[i].bar], history_days))

\* cloud: rs.error_code != '0' is the collaborator's error
get_stock_history(resp) ==
    IF resp.raises THEN NoneDf
    ELSE IF resp.failed THEN NoneDf
    ELSE IF Len(resp.data_list) < 30 THEN NoneDf
    ELSE clean_history(resp.data_list)

\* local: the collaborator's error is an answer of None
get_stock_history_ak(resp) ==
    IF resp.raises THEN NoneDf
    ELSE IF resp.failed \/ Len(resp.data_list) < 30 THEN NoneDf
    ELSE clean_history(resp.data_list)

\* the series screen_single_stock gets for symbol s, per feed and run mode
fetch(s, kind, m) ==
    IF m = "sequential" THEN get_stock_history(Response(s, kind))
    ELSE get_stock_history_ak(Response(s, kind))

\* of a check_pattern return, what the scan and the report use
Verdict(r) ==
    [match |-> r.match, score |-> IF r.match THEN r.detail.score ELSE 0, raised |-> r.raised]

\* what the three check_pattern calls return on a series
check_patterns(d, s) ==
    [reversal |-> Verdict(check_reversal_pattern(d)),
     volume_breakout |-> Verdict(check_volume_breakout_pattern(d, s)),
     shrink_breakout |-> Verdict(check_shrink_breakout_pattern(d, s))]

\* The series is fetched once and shared by the three calls; on None no
\* detector is called.
Evaluation(s, kind, m) ==
    CHOOSE e \in {[isNone |-> d.isNone,
                   checks |-> IF d.isNone THEN << >> ELSE check_patterns(d, s)] :
                  d \in {fetch(s, kind, m)}} : TRUE

\* every evaluation a scan of the universe can ask for
Evaluations(universe) ==
    [s \in Range(universe), kind \in FeedKinds, m \in Modes |-> Evaluation(s, kind, m)]

\* the order in which screen_single_stock and the report take the detectors
DetectorOrder == <<"reversal", "volume_breakout", "shrink_breakout">>

Faults == {"none"} \cup Detectors

\* results[x] = {'code': code, 'name': name, **detail}
Hit(s, r) == [code |-> s, score |-> r.score]

\* A variant without the try / except around each call: the fault of detector
\* flt leaves the method, with the results gathered so far.
screen_single_stock_unguarded(s, kind, flt, m) ==
    IF checked[s, kind, m].isNone THEN [results |-> << >>, ran |-> {}, raised |-> FALSE]
    ELSE
    LET r == checked[s, kind, m].checks
        hits == {x \in Detectors : r[x].match}
        last == IF flt = "none" THEN 3
                ELSE CHOOSE i \in 1..3 : DetectorOrder[i] = flt
    IN  [results |-> IF flt = "none" THEN [x \in hits |-> [code |-> s, score |-> r[x].score]]
                     ELSE << >>,
         ran |-> {DetectorOrder[i] : i \in 1..last},
         raised |-> flt # "none"]

\* screen_single_stock.  flt names the detector that raises an unexpected fault
\* while it evaluates this symbol ("none": no detector does).  Each call sits in
\* its own try / except Exception: pass.  The value is the results dict (the
\* empty function stands for None), the detectors that were called, and whether
\* an exception left the method.
screen_single_stock(s, kind, flt, m) ==
    IF checked[s, kind, m].isNone THEN [results |-> << >>, ran |-> {}, raised |-> FALSE]
    ELSE
    LET r == checked[s, kind, m].checks
        hits == {x \in Detectors : x # flt /\ r[x].match}
    IN  [results |-> [x \in hits |-> Hit(s, r[x])],
         ran |-> Detectors,
         raised |-> FALSE]

----------------------------------------------------------------------------
(* The aggregation: the result lists, their sort, the Hit Map, the         *)
(* resonance listing and the top recommendations.                          *)

\* the three result lists of run(), by detector
Lists(rl, vl, sl) == [reversal |-> rl, volume_breakout |-> vl, shrink_breakout |-> sl]

\* A variant that assigns the new entry where the loop appends it.
collect_overwrite(lists, results) ==
    LET assigned(x) == IF x \in DOMAIN results THEN <<results[x]>> ELSE lists[x]
    IN  Lists(assigned("reversal"), assigned("volume_breakout"), assigned("shrink_breakout"))

\* The body of the collection loop for one screen_single_stock result:
\* "if result:" and the three appends.
collect(lists, results) ==
    LET appended(x) ==
            IF x \in DOMAIN results THEN Append(lists[x], results[x]) ELSE lists[x]
    IN  Lists(appended("reversal"), appended("volume_breakout"),
              appended("shrink_breakout"))

\* tuple comparison a > b of Python, on keys of equal length
LexGt(a, b) ==
    \E i \in 1..Len(a) : a[i] > b[i] /\ \A j \in 1..(i - 1) : a[j] = b[j]

\* the sequence with the same entries, written out
Listed(f) == SubSeq(f, 1, Len(f))

\* One entry put into a list that is in descending key order: it goes behind
\* every entry whose key is not smaller than its own.
insert_keyed(acc, e) ==
    LET k == Cardinality({i \in 1..Len(acc) : ~LexGt(e.key, acc[i].key)})
    IN  SubSeq(acc, 1, k) \o <<e>> \o SubSeq(acc, k + 1, Len(acc))

RECURSIVE sort_keyed(_, _)
sort_keyed(acc, rest) ==
    IF rest = << >> THEN acc
    ELSE sort_keyed(insert_keyed(acc, Head(rest)), Tail(rest))

\* sorted(list, key=Key, reverse=True) and list.sort(key=Key, reverse=True):
\* descending by key, entries of equal key kept in their original order
SortedReverse(list, Key(_)) ==
    LET keyed == Listed([i \in 1..Len(list) |-> [key |-> Key(list[i]), item |-> list[i]]])
        sorted == sort_keyed(<< >>, keyed)
    IN  Listed([i \in 1..Len(sorted) |-> sorted[i].item])

\* key=lambda x: x.get('score', 0)
ScoreKey(r) == <<r.score>>
sort_by_score(list) == SortedReverse(list, ScoreKey)

\* The Hit Map is a dict: here the sequence of its items in insertion order,
\* each [code, strategies, scores].
HasCode(seq, c) == \E i \in 1..Len(seq) : seq[i].code = c
IndexOf(seq, c) == CHOOSE i \in 1..Len(seq) : seq[i].code = c

\* A variant that assigns a fresh entry on every pass, also when the code is
\* in the map already.
record_hit_reset(hm, r, strategy) ==
    LET base == IF HasCode(hm, r.code) THEN hm
                ELSE Append(hm, [code |-> r.code, strategies |-> << >>, scores |-> << >>])
        i == IndexOf(base, r.code)
    IN  [base EXCEPT ![i] = [code |-> r.code, strategies |-> <<strategy>>,
                             scores |-> (strategy :> r.score)]]

\* one pass of a loop body "if code not in hit_map: ...; append; scores[...] = ..."
record_hit(hm, r, strategy) ==
    LET base == IF HasCode(hm, r.code) THEN hm
                ELSE Append(hm, [code |-> r.code, strategies |-> << >>, scores |-> << >>])
        i == IndexOf(base, r.code)
    IN  [base EXCEPT ![i] = [code |-> r.code,
                             strategies |-> Append(base[i].strategies, strategy),
                             scores |-> (strategy :> r.score) @@ base[i].scores]]

RECURSIVE record_all(_, _, _)
record_all(hm, list, strategy) ==
    IF list = << >> THEN hm
    ELSE record_all(record_hit(hm, Head(list), strategy), Tail(list), strategy)

\* the three loops, over the detectors in the given order
hit_map_in_order(order, lists) ==
    record_all(record_all(record_all(<< >>, lists[order[1]], order[1]),
                          lists[order[2]], order[2]),
               lists[order[3]], order[3])

build_hit_map(lists) == hit_map_in_order(DetectorOrder, lists)

\* multi_hit = {k: v for k, v in hit_map.items() if len(v['strategies']) >= 2}
multi_hit_of(hm) == SelectSeq(hm, LAMBDA e : Len(e.strategies) >= 2)

\* sorted(multi_hit.items(), key=lambda x: len(x[1]['strategies']), reverse=True)
StrategyCountKey(e) == <<Len(e.strategies)>>
resonance_listing(hm) == SortedReverse(multi_hit_of(hm), StrategyCountKey)

\* all_stocks: one record per list entry, the lists taken in detector order
candidates(list, strategy, hm) ==
    Listed([i \in 1..Len(list) |->
        [code |-> list[i].code, strategy |-> strategy, score |-> list[i].score,
         multi_hit |-> HasCode(multi_hit_of(hm), list[i].code),
         hit_count |-> IF HasCode(hm, list[i].code)
                       THEN Len(hm[IndexOf(hm, list[i].code)].strategies) ELSE 0]])

all_stocks_of(lists, hm) ==
    candidates(lists.reversal, "reversal", hm)
    \o candidates(lists.volume_breakout, "volume_breakout", hm)
    \o candidates(lists.shrink_breakout, "shrink_breakout", hm)

\* A variant that keeps the first record seen of each code.
RECURSIVE dedupe_keep_first(_, _)
dedupe_keep_first(seen, all_stocks) ==
    IF all_stocks = << >> THEN seen
    ELSE LET s == Head(all_stocks) IN
         dedupe_keep_first(IF ~HasCode(seen, s.code) THEN Append(seen, s) ELSE seen,
                           Tail(all_stocks))

\* seen: "if code not in seen or s['score'] > seen[code]['score']: seen[code] = s";
\* a replaced value keeps the key's place in the dict
RECURSIVE dedupe(_, _)
dedupe(seen, all_stocks) ==
    IF all_stocks = << >> THEN seen
    ELSE LET s == Head(all_stocks) IN
         dedupe(IF ~HasCode(seen, s.code) THEN Append(seen, s)
                ELSE IF s.score > seen[IndexOf(seen, s.code)].score
                THEN [seen EXCEPT ![IndexOf(seen, s.code)] = s]
                ELSE seen,
                Tail(all_stocks))

\* the number of recommendations printed: ranked[:5]
top_n == 5

\* key=lambda x: (x['hit_count'], x['score'])
RankKey(s) == <<s.hit_count, s.score>>

\* the printed recommendations: code, strategies of the Hit Map, highest score
top_recommendations(lists, hm) ==
    LET ranked_all == SortedReverse(dedupe(<< >>, all_stocks_of(lists, hm)), RankKey)
        shown == SubSeq(ranked_all, 1, Min2(top_n, Len(ranked_all)))
    IN  Listed([i \in 1..Len(shown) |->
            [code |-> shown[i].code, score |-> shown[i].score,
             hit_count |-> shown[i].hit_count, multi_hit |-> shown[i].multi_hit,
             strategies |-> hm[IndexOf(hm, shown[i].code)].strategies]])

Reversed(list) == Listed([i \in 1..Len(list) |-> list[Len(list) + 1 - i]])

\* A variant that turns each list round in place while it reads it.
_print_report_reversing(lists, m) ==
    LET hm == build_hit_map(lists) IN
    [hit_map |-> hm,
     multi_listing |-> resonance_listing(hm),
     ranked |-> IF m = "concurrent" THEN top_recommendations(lists, hm) ELSE << >>,
     lists |-> Lists(Reversed(lists.reversal), Reversed(lists.volume_breakout),
                     Reversed(lists.shrink_breakout))]

\* _print_report (local) and _format_markdown (cloud, which prints no
\* recommendations): what is printed, and the lists as the call leaves them
_print_report(lists, m) ==
    LET hm == build_hit_map(lists) IN
    [hit_map |-> hm,
     multi_listing |-> resonance_listing(hm),
     ranked |-> IF m = "concurrent" THEN top_recommendations(lists, hm) ELSE << >>,
     lists |-> lists]

----------------------------------------------------------------------------
(* run(): the scan loop, the sort and the report *)

\* the detector inputs, unused while a universe is scanned
DetIdle ==
    /\ df = NoneDf
    /\ code = << >>
    /\ result = [x \in Detectors |-> Pending]

NoReport ==
    /\ hit_map = << >>
    /\ multi_listing = << >>
    /\ ranked = << >>
    /\ reports = 0

\* after get_stock_list: the universe is known, nothing is evaluated yet
ScanInit ==
    /\ checked = Evaluations(SubSeq(StockPool, 1, MaxStocks))
    /\ \E k \in 0..MaxStocks : stocks = SubSeq(StockPool, 1, k)
    /\ mode \in Modes
    /\ pc = "scan"
    /\ todo = Range(stocks)
    /\ feed = [s \in Range(stocks) |-> "pending"]
    /\ fault = [s \in Range(stocks) |-> "none"]
    /\ detectors_run = [s \in Range(stocks) |-> {}]
    /\ reversal_results = << >>
    /\ volume_results = << >>
    /\ shrink_results = << >>
    /\ NoReport
    /\ DetIdle
    /\ CloudIdle
    /\ AgentIdle

\* "if not stocks: return"
ReturnEmpty ==
    /\ pc = "scan"
    /\ stocks = << >>
    /\ pc' = "returned"
    /\ UNCHANGED <<detVars, scanVars, listVars, repVars, cloudVars, agentVars>>

\* One pass of the loop body for symbol s: screen_single_stock, then the
\* collection of its result under the loop's own try / except Exception: pass.
\* The collaborator's answer and the detector fault, if any, are the
\* environment's choice.
Screen(s) ==
    \E kind \in FeedKinds, flt \in Faults :
        /\ flt # "none" => kind = "ok"
        /\ LET out == screen_single_stock(s, kind, flt, mode)
               lists == Lists(reversal_results, volume_results, shrink_results)
               after == IF out.raised THEN lists ELSE collect(lists, out.results)
           IN  /\ reversal_results' = after.reversal
               /\ volume_results' = after.volume_breakout
               /\ shrink_results' = after.shrink_breakout
               /\ detectors_run' = [detectors_run EXCEPT ![s] = out.ran]
        /\ feed' = [feed EXCEPT ![s] = kind]
        /\ fault' = [fault EXCEPT ![s] = flt]
        /\ todo' = todo \ {s}
        /\ UNCHANGED <<detVars, stocks, mode, pc, checked, repVars, cloudVars, agentVars>>

\* cloud: "for i, stock in enumerate(stocks)", the symbols in universe order
ScreenNextInOrder ==
    /\ pc = "scan"
    /\ mode = "sequential"
    /\ todo # {}
    /\ Screen(stocks[Len(stocks) - Cardinality(todo) + 1])

\* local: "for future in as_completed(futures)", the tasks in the order in
\* which the pool completes them
ScreenAsCompleted ==
    /\ pc = "scan"
    /\ mode = "concurrent"
    /\ \E s \in todo : Screen(s)

\* after the loop: the three sorts, then the report
SortAndReport ==
    /\ pc = "scan"
    /\ stocks # << >>
    /\ todo = {}
    /\ LET lists == Lists(reversal_results, volume_results, shrink_results)
           sorted == Lists(sort_by_score(reversal_results), sort_by_score(volume_results),
                           sort_by_score(shrink_results))
           rep == _print_report(sorted, mode)
       IN  /\ reversal_results' = rep.lists.reversal
           /\ volume_results' = rep.lists.volume_breakout
           /\ shrink_results' = rep.lists.shrink_breakout
           /\ hit_map' = rep.hit_map
           /\ multi_listing' = rep.multi_listing
           /\ ranked' = rep.ranked
    /\ reports' = 1
    /\ pc' = "done"
    /\ UNCHANGED <<detVars, scanVars, cloudVars, agentVars>>

Next == ReturnEmpty \/ ScreenNextInOrder \/ ScreenAsCompleted \/ SortAndReport

Spec == ScanInit /\ [][Next]_vars

----------------------------------------------------------------------------
(* The aggregation on its own: the result lists as a finished scan loop    *)
(* may leave them, sorted and reported, and the report produced again from *)
(* the same lists.                                                         *)

\* the most symbols with a hit, how many of them take any profile, and the
\* most reports produced
MaxHitSymbols == 6
MaxFree == 3
MaxReports == 2

\* -1: the detector did not match the symbol
NoHit == 0 - 1
Profile(r, v, s) == [reversal |-> r, volume_breakout |-> v, shrink_breakout |-> s]
Profiles ==
    {Profile(NoHit, NoHit, 90), Profile(60, 70, NoHit),
     Profile(NoHit, 90, 60), Profile(50, 60, 60)}

HitSymbol(i) == <<6, 0, i>>

\* a symbol past the free ones is hit by the shrink-breakout detector alone
Filler(i) == Profile(NoHit, NoHit, 100 - 5 * i)

\* the list of detector x when the symbols' tasks complete in the given order
ListOf(x, arrival, profile) ==
    LET hits == SelectSeq(arrival, LAMBDA c : profile[c][x] # NoHit)
    IN  [i \in 1..Len(hits) |-> [code |-> hits[i], score |-> profile[hits[i]][x]]]

AggInit ==
    /\ \E k \in 1..MaxHitSymbols :
         \E free \in [1..Min2(k, MaxFree) -> Profiles], up \in BOOLEAN :
            LET arrival == [i \in 1..k |-> HitSymbol(IF up THEN i ELSE k + 1 - i)]
                profile == [c \in {HitSymbol(i) : i \in 1..k} |->
                               IF c[3] <= MaxFree THEN free[c[3]] ELSE Filler(c[3])]
            IN
            /\ stocks = [i \in 1..k |-> HitSymbol(i)]
            /\ reversal_results = ListOf("reversal", arrival, profile)
            /\ volume_results = ListOf("volume_breakout", arrival, profile)
            /\ shrink_results = ListOf("shrink_breakout", arrival, profile)
    /\ mode = "concurrent"
    /\ pc = "scan"
    /\ todo = {}
    /\ feed = [s \in Range(stocks) |-> "ok"]
    /\ fault = [s \in Range(stocks) |-> "none"]
    /\ detectors_run = [s \in Range(stocks) |-> Detectors]
    /\ checked = << >>
    /\ NoReport
    /\ DetIdle
    /\ CloudIdle
    /\ AgentIdle

\* _print_report called once more on the lists it was given before
PrintReportAgain ==
    /\ pc = "done"
    /\ reports < MaxReports
    /\ LET rep == _print_report(Lists(reversal_results, volume_results, shrink_results),
                                mode)
       IN  /\ reversal_results' = rep.lists.reversal
           /\ volume_results' = rep.lists.volume_breakout
           /\ shrink_results' = rep.lists.shrink_breakout
           /\ hit_map' = rep.hit_map
           /\ multi_listing' = rep.multi_listing
           /\ ranked' = rep.ranked
    /\ reports' = reports + 1
    /\ UNCHANGED <<detVars, scanVars, pc, cloudVars, agentVars>>

AggNext == SortAndReport \/ PrintReportAgain

SpecAgg == AggInit /\ [][AggNext]_vars

----------------------------------------------------------------------------
(* Properties of the detectors, checked under SpecDet *)

\* C1: whenever the Reversal, Volume-Breakout or Shrink-Breakout detector returns
\* matched, the score it reports is a whole number of points between 0 and 100.
C1_ScoreBound ==
    \A x \in Detectors :
        (result[x].done /\ result[x].match) => result[x].detail.score \in 0..100

\* a series and code on which all three detectors have returned matched
C1_AllMatched ==
    \A x \in Detectors : result[x].done /\ result[x].match

\* the least series length each detector accepts
MinLength(x) ==
    CASE x = "reversal" -> 3 + reversal_config.prior_decline_days
      [] x = "volume_breakout" -> 50
      [] x = "shrink_breakout" -> 60

TooShort(x) == df.isNone \/ DfLen(df) < MinLength(x)

\* C9: on an absent series, or one shorter than the detector's minimum (25 bars
\* for Reversal, 50 for Volume-Breakout, 60 for Shrink-Breakout), the detector
\* returns not-matched and raises nothing.
C9_ShortSeriesNotMatched ==
    \A x \in Detectors :
        (result[x].done /\ TooShort(x)) => (~result[x].match /\ ~result[x].raised)

\* a 59-bar series: Shrink-Breakout has turned it down for its length alone,
\* while Reversal, for which it is long enough, has matched it
C9_OneBarShort ==
    /\ ~df.isNone
    /\ DfLen(df) = 59
    /\ result.shrink_breakout.done
    /\ result.reversal.done
    /\ result.reversal.match

\* C10: on a series of at least the detector's minimum length with non-negative
\* fields, zeros allowed, a detector returns matched or not-matched, never
\* divides by zero and never raises.
C10_NoDivisionByZero ==
    \A x \in Detectors :
        (result[x].done /\ ~TooShort(x)) => (~result[x].divzero /\ ~result[x].raised)

\* what detector x returns on (d, c)
Detect(x, d, c) ==
    CASE x = "reversal" -> check_reversal_pattern(d)
      [] x = "volume_breakout" -> check_volume_breakout_pattern(d, c)
      [] x = "shrink_breakout" -> check_shrink_breakout_pattern(d, c)

today_bullish(row) == row.close > row.open

\* C29: for each of the three detectors a matched result implies that the last
\* bar of the series closes over its open, so the pre-filter on latest price >
\* today's open keeps every symbol a detector matches on that bar.
C29_MatchedIsBullish ==
    \A x \in Detectors :
        (result[x].done /\ result[x].match) =>
            /\ ILoc(df, -1).close > ILoc(df, -1).open
            /\ today_bullish(ILoc(df, -1))

\* a series the pre-filter removes, returned not-matched by all three detectors
\* though its last bar closes over every close since the limit-up bar
C29_FilteredNotMatched ==
    /\ \A x \in Detectors : result[x].done /\ ~result[x].match
    /\ ~df.isNone
    /\ DfLen(df) >= 60
    /\ ~today_bullish(ILoc(df, -1))
    /\ \A k \in 2..6 : ILoc(df, -1).close > ILoc(df, -k).close

----------------------------------------------------------------------------
(* Properties of the reversal detector, checked under SpecRev *)

RevDay1 == ILoc(df, -3)
RevDay2 == ILoc(df, -2)
RevDay3 == ILoc(df, -1)

\* the change from close[len-25] to close[len-4] is negative, of magnitude >= 3%
PriorDeclineHolds ==
    LET a == ILoc(df, -25).close
        b == ILoc(df, -4).close
    IN  a > 0 /\ b < a /\ (a - b) * 100 >= 3 * a
\* day1 is bearish with |change%| in [0.3, 2.0]
Day1Holds ==
    LET o == RevDay1.open
        c == RevDay1.close
    IN  o > 0 /\ c < o /\ (o - c) * 1000 >= 3 * o /\ (o - c) * 100 <= 2 * o
\* day2 is bearish with |change%| >= 3.0
Day2Holds ==
    LET o == RevDay2.open
        c == RevDay2.close
    IN  o > 0 /\ c < o /\ (o - c) * 100 >= 3 * o
\* day3 opens below day2's close by at least gapDownMin = 0 percent, is bullish
\* and has change% >= 1.0
Day3Holds ==
    LET o == RevDay3.open
        c == RevDay3.close
    IN  o > 0 /\ RevDay2.close > 0 /\ RevDay2.close - o >= 0
        /\ c > o /\ (c - o) * 100 >= o
\* the upper-shadow ratio of each of the three bars is <= 30
ShadowHolds ==
    \A bar \in {RevDay1, RevDay2, RevDay3} :
        bar.high = bar.low
        \/ (bar.high - Max2(bar.open, bar.close)) * 100 <= 30 * (bar.high - bar.low)

C12_Day3OpensBelowDay2Close ==
    (result.reversal.done /\ result.reversal.match) => RevDay3.open < RevDay2.close

\* the series with day2's bar replaced
WithDay2(d, bar) == DataFrame([d.rows EXCEPT ![Len(d.rows) - 1] = bar])
Day2Variants == {Candle(d2[1], d2[2], 1000) : d2 \in Day2Bars}
\* bar b declines by a larger percentage than bar a
Deeper(b, a) == (b.open - b.close) * a.open > (a.open - a.close) * b.open
\* the score the detector gives the series with day2 replaced, NoHit when not matched
ScoreWithDay2(bar) ==
    LET r == check_reversal_pattern(WithDay2(df, bar))
    IN  IF r.match THEN r.detail.score ELSE NoHit

\* C13: of two matched series that differ only in day2's bar, the one with the
\* larger day2 decline has the greater or equal score.
C13_DeeperDay2NeverLowers ==
    (result.reversal.done /\ result.reversal.match) =>
        \A bar \in Day2Variants :
            (Deeper(bar, RevDay2) /\ ScoreWithDay2(bar) # NoHit) =>
                ScoreWithDay2(bar) >= result.reversal.detail.score

\* what the score reads of day2 besides its decline: day3's gap from day2's close,
\* whether day2's range engulfs day1's, the capped gap of day2's open below day1's
\* close, and day2's upper-shadow ratio
Engulfs(bar) == bar.high >= RevDay1.high /\ bar.low <= RevDay1.low
Day2GapCredit(bar) ==
    IF bar.open >= RevDay1.close THEN Frac(0, 1)
    ELSE IF (RevDay1.close - bar.open) * 100 >= 2 * RevDay1.close THEN Frac(2, 1)
    ELSE Frac((RevDay1.close - bar.open) * 100, RevDay1.close)
SameOtherInputs(b, a) ==
    /\ b.close = a.close
    /\ Engulfs(b) <=> Engulfs(a)
    /\ FLe(Day2GapCredit(b), Day2GapCredit(a)) /\ FLe(Day2GapCredit(a), Day2GapCredit(b))
    /\ FLe(upper_shadow_ratio(b), upper_shadow_ratio(a))
    /\ FLe(upper_shadow_ratio(a), upper_shadow_ratio(b))

\* C13, amended: of two matched series that differ only in day2's bar and agree in
\* the other inputs of the score (gap, engulfing, day2's own gap credit, shadow),
\* the one with the larger day2 decline has the greater or equal score.
C13_DeeperDay2SameInputs ==
    (result.reversal.done /\ result.reversal.match) =>
        \A bar \in Day2Variants :
            (Deeper(bar, RevDay2) /\ SameOtherInputs(bar, RevDay2)
             /\ ScoreWithDay2(bar) # NoHit) =>
                ScoreWithDay2(bar) >= result.reversal.detail.score

\* a matched series with a deeper day2 of the same other inputs that is matched
\* too, and scores strictly higher
C13_DeeperScoresHigher ==
    /\ result.reversal.done
    /\ result.reversal.match
    /\ \E bar \in Day2Variants :
          /\ Deeper(bar, RevDay2)
          /\ SameOtherInputs(bar, RevDay2)
          /\ ScoreWithDay2(bar) # NoHit
          /\ ScoreWithDay2(bar) > result.reversal.detail.score


----------------------------------------------------------------------------
(* Properties of the breakout detectors, checked under SpecBrk *)

LastBar == ILoc(df, -1)
PrevBar == ILoc(df, -2)
\* the series with the last bar's volume replaced
WithLastVolume(d, v) == DataFrame([d.rows EXCEPT ![Len(d.rows)].volume = v])

\* C14: the volume-breakout detector matches only if the last bar is bullish and
\* its volume is strictly greater than the previous bar's; equal volume, or a
\* previous volume of zero, gives not-matched.
C14_BullishOnRisingVolume ==
    (result.volume_breakout.done /\ result.volume_breakout.match) =>
        /\ LastBar.close > LastBar.open
        /\ PrevBar.volume # 0
        /\ LastBar.volume > PrevBar.volume

\* a series returned not-matched on equal volume that matches with one unit more
C14_EqualVolumeNotMatched ==
    /\ result.volume_breakout.done
    /\ ~result.volume_breakout.match
    /\ LastBar.close > LastBar.open
    /\ LastBar.volume = PrevBar.volume
    /\ check_volume_breakout_pattern(WithLastVolume(df, LastBar.volume + 1), code).match

\* the preconditions of the volume-breakout detector on the last bar
BreakoutDay ==
    /\ DfLen(df) >= 50
    /\ LastBar.close > LastBar.open
    /\ PrevBar.volume # 0
    /\ LastBar.volume > PrevBar.volume
\* the lookback window: the bars at index len-1-k, k = 2 .. min(20, len-30)
Window == 2..Min2(20, DfLen(df) - 30)
CandidateIdx(k) == DfLen(df) - 1 - k
\* the chain after the limit-up test, for the bar at index i: the post window,
\* the pre-consolidation and the prior decline
PostHolds(i) ==
    /\ (DfLen(df) - 2) - i >= 5
    /\ \A j \in (i + 1)..(DfLen(df) - 2) : ILoc(df, j).close >= ILoc(df, i).open
    /\ LastBar.close > ILoc(df, i).close
DeclineBefore(consol) ==
    IF consol.none THEN None
    ELSE _vb_check_prior_decline(df, consol.consol_start, consol.mean_price)
PassesRest(i) ==
    /\ PostHolds(i)
    /\ ~_vb_find_consolidation(df, i).none
    /\ ~DeclineBefore(_vb_find_consolidation(df, i)).none
PassesChain(k) ==
    /\ CandidateIdx(k) >= 1
    /\ _vb_is_limit_up(ILoc(df, CandidateIdx(k)), ILoc(df, CandidateIdx(k) - 1).close, code)
    /\ PassesRest(CandidateIdx(k))
\* the detail of the candidate at lookback k
CandidateDetail(k) ==
    LET consol == _vb_find_consolidation(df, CandidateIdx(k))
    IN  vb_detail(df, CandidateIdx(k), consol, DeclineBefore(consol))
ValidCandidates == {k \in Window : PassesChain(k)}

\* C15: of the limit-up candidates in the lookback window that pass the full
\* chain the detector returns the detail of the one with the highest score, and
\* of two with the same score the one nearest to the breakout day.
C15_BestCandidate ==
    (result.volume_breakout.done /\ BreakoutDay) =>
        IF ValidCandidates = {} THEN ~result.volume_breakout.match
        ELSE /\ result.volume_breakout.match
             /\ \E k \in ValidCandidates :
                   /\ result.volume_breakout.detail = CandidateDetail(k)
                   /\ \A j \in ValidCandidates :
                         \/ CandidateDetail(j).score < CandidateDetail(k).score
                         \/ CandidateDetail(j).score = CandidateDetail(k).score /\ k <= j

\* two candidates pass the chain, the farther one scores higher and is returned
C15_FartherScoresHigher ==
    /\ result.volume_breakout.done
    /\ result.volume_breakout.match
    /\ \E j, k \in ValidCandidates :
          /\ j < k
          /\ CandidateDetail(j).score < CandidateDetail(k).score
          /\ result.volume_breakout.detail.limit_up_idx = CandidateIdx(k)

\* C16: for a matched volume-breakout result, the chosen limit-up bar has at
\* least 5 bars strictly between it and the breakout day, each of them closes at
\* or above the limit-up bar's open, and the breakout day closes strictly above
\* the limit-up bar's close.
C16_PostConsolidation ==
    (result.volume_breakout.done /\ result.volume_breakout.match) =>
        LET i == result.volume_breakout.detail.limit_up_idx IN
        /\ (DfLen(df) - 2) - i >= 5
        /\ \A j \in (i + 1)..(DfLen(df) - 2) : ILoc(df, j).close >= ILoc(df, i).open
        /\ LastBar.close > ILoc(df, i).close

\* a match on a limit-up bar with exactly 5 bars between it and the breakout day
C16_ExactlyFiveBars ==
    /\ result.volume_breakout.done
    /\ result.volume_breakout.match
    /\ (DfLen(df) - 2) - result.volume_breakout.detail.limit_up_idx = 5

\* the closes of the len bars that end just before index i have amplitude
\* (max - min) / mean * 100 <= 15
Within15(i, len) ==
    /\ SumClose(df, i - len, i) > 0
    /\ (MaxClose(df, i - len, i) - MinClose(df, i - len, i)) * len * 100
           <= 15 * SumClose(df, i - len, i)
\* the longest window the search looks at before index i
LongestExamined(i) == Min2(i - 1, 79)

\* C17: the pre-consolidation window of a matched result ends just before the
\* limit-up bar and has the longest length L >= 22 such that every length from
\* 22 up to L has amplitude <= 15: no shorter length in 22..L is over the
\* threshold, and growth stopped at the first length that is.
C17_EveryLengthWithin15 ==
    (result.volume_breakout.done /\ result.volume_breakout.match) =>
        LET i == result.volume_breakout.detail.limit_up_idx
            L == result.volume_breakout.detail.consol_days
        IN  /\ L >= 22
            /\ \A len \in 22..L : Within15(i, len)
            /\ L + 1 > LongestExamined(i) \/ ~Within15(i, L + 1)

\* C17, amended: the window has the length L >= 22 that ends the first run of
\* lengths with amplitude <= 15: the lengths from 22 up to the first one within
\* the threshold are passed over, every length from that one up to L is within
\* it, and growth stopped at the first length after it that is not.
C17_FirstRunWithin15 ==
    (result.volume_breakout.done /\ result.volume_breakout.match) =>
        LET i == result.volume_breakout.detail.limit_up_idx
            L == result.volume_breakout.detail.consol_days
        IN  /\ L >= 22
            /\ \E first \in 22..L :
                  /\ \A len \in 22..(first - 1) : ~Within15(i, len)
                  /\ \A len \in first..L : Within15(i, len)
            /\ L + 1 > LongestExamined(i) \/ ~Within15(i, L + 1)

\* a match whose window is longer than 22 bars while its last 22 bars are over
\* the threshold
C17_ShortLengthPassedOver ==
    /\ result.volume_breakout.done
    /\ result.volume_breakout.match
    /\ ~Within15(result.volume_breakout.detail.limit_up_idx, 22)

\* the bar at index i gains >= 9.5% over the previous close (>= 19.5% for a code
\* that begins with "3"), is bullish, has a range, and a body ratio >= 0.6
LimitUpAsStated(i) ==
    LET row == ILoc(df, i)
        prev_close == ILoc(df, i - 1).close
    IN  /\ prev_close > 0
        /\ (row.close - prev_close) * 1000
               >= (IF code[1] = 3 THEN 195 ELSE 95) * prev_close
        /\ row.close > row.open
        /\ row.high # row.low
        /\ Abs(row.close - row.open) * 10 >= 6 * (row.high - row.low)

\* C18: the volume-breakout detector treats a bar as limit-up exactly if it
\* gains >= 9.5% (>= 19.5% for a code beginning with "3") over the previous
\* close, is bullish, has high # low and a body ratio >= 0.6; a previous close
\* of zero never qualifies.
C18_LimitUpIff ==
    (result.volume_breakout.done /\ BreakoutDay) =>
        /\ result.volume_breakout.match <=>
              \E k \in Window :
                  /\ CandidateIdx(k) >= 1
                  /\ LimitUpAsStated(CandidateIdx(k))
                  /\ PassesRest(CandidateIdx(k))
        /\ result.volume_breakout.match =>
              LimitUpAsStated(result.volume_breakout.detail.limit_up_idx)

\* a match, for a code that begins with "3", on a bar that gains exactly 19.5%
\* with a body ratio of exactly 0.6
C18_OnBothThresholds ==
    /\ result.volume_breakout.done
    /\ result.volume_breakout.match
    /\ code[1] = 3
    /\ LET i == result.volume_breakout.detail.limit_up_idx
           row == ILoc(df, i)
       IN  /\ (row.close - ILoc(df, i - 1).close) * 1000 = 195 * ILoc(df, i - 1).close
           /\ (row.close - row.open) * 10 = 6 * (row.high - row.low)

\* the upper bounds of the eight mapped values, in the order they are added
ComponentBounds == <<15, 10, 10, 10, 15, 10, 15, 15>>
InRange(f, hi) == FLe(Frac(0, 1), f) /\ FLe(f, Frac(hi, 1))

\* C19: every mapped value of the volume-breakout score lies between its two
\* output bounds, so that the seven components are bounded by 15, 10, 20, 15,
\* 10, 15 and 15 and their unclamped sum lies in [0, 100].
C19_ComponentsBounded ==
    (result.volume_breakout.done /\ result.volume_breakout.match) =>
        LET p == vb_components(result.volume_breakout.detail) IN
        /\ \A k \in 1..8 : InRange(p[k], ComponentBounds[k])
        /\ InRange(FAdd(p[3], p[4]), 20)
        /\ InRange(vb_raw_score(result.volume_breakout.detail), 100)

\* a matched detail with a breakout volume ratio over 3 and a limit-up volume
\* ratio under 1, inputs beyond both ends of their maps, and a post-consolidation
\* amplitude inside the reversed map
C19_InputsBeyondBothEnds ==
    /\ result.volume_breakout.done
    /\ result.volume_breakout.match
    /\ result.volume_breakout.detail.break_vol_ratio > 300
    /\ result.volume_breakout.detail.limit_up_vol_ratio < 100
    /\ result.volume_breakout.detail.post_range_pct > 500
    /\ result.volume_breakout.detail.post_range_pct < 1000

\* C20: the shrink-breakout detector matches only if the last bar is bullish and
\* the average volume of the last 5 bars is strictly less than that of the last
\* 10 bars.
C20_ShrinkSignal ==
    (result.shrink_breakout.done /\ result.shrink_breakout.match) =>
        /\ LastBar.close > LastBar.open
        /\ SumVolume(df, DfLen(df) - 5, DfLen(df)) * 10
               < SumVolume(df, DfLen(df) - 10, DfLen(df)) * 5

\* a series returned not-matched with the two averages equal that matches with
\* one unit less volume on the last bar
C20_EqualAveragesNotMatched ==
    /\ result.shrink_breakout.done
    /\ ~result.shrink_breakout.match
    /\ SumVolume(df, DfLen(df) - 5, DfLen(df)) * 10
           = SumVolume(df, DfLen(df) - 10, DfLen(df)) * 5
    /\ check_shrink_breakout_pattern(WithLastVolume(df, LastBar.volume - 1), code).match

----------------------------------------------------------------------------
(* Properties of the shrink-breakout detector, checked under SpecShr *)

\* the close of bar i gains >= 9.8% over the close before it (>= 19.8% for a
\* code prefixed "300")
GainsLimit(i) ==
    /\ ILoc(df, i - 1).close > 0
    /\ (ILoc(df, i).close - ILoc(df, i - 1).close) * 1000
           >= (IF code = <<3, 0, 0>> THEN 198 ELSE 98) * ILoc(df, i - 1).close
\* the largest index in 1 .. len-7 of such a bar, -1 if there is none
NearestLimitUp ==
    LET found == {i \in 1..(DfLen(df) - 7) : GainsLimit(i)}
    IN  IF found = {} THEN -1 ELSE CHOOSE i \in found : \A j \in found : j <= i
\* the series is long enough and its last bar gives the signal
SignalHolds == DfLen(df) >= 60 /\ _sb_check_signal(df).ok
\* the phases after the search, tried on the bar at index i
PreOf(i) == _sb_check_pre_consolidation(df, i, code)
LaterPhases(i) ==
    /\ _sb_check_post_consolidation(df, i).ok
    /\ PreOf(i).ok
    /\ _sb_check_prior_decline(df, PreOf(i).detail.consolidation1_start).ok

\* C21: the shrink-breakout detector uses the largest index i in 1 .. len-7
\* whose close gains >= 9.8% (>= 19.8% for codes prefixed "300") over the close
\* before it; without such a bar the result is not-matched, and only this bar
\* is tried: the result is matched exactly if it passes the later phases.
C21_NearestLimitUpOnly ==
    (result.shrink_breakout.done /\ SignalHolds) =>
        IF NearestLimitUp = -1 THEN ~result.shrink_breakout.match
        ELSE /\ result.shrink_breakout.match <=> LaterPhases(NearestLimitUp)
             /\ result.shrink_breakout.match =>
                   result.shrink_breakout.detail.limit_up_idx = NearestLimitUp

\* a not-matched series whose nearest limit-up bar fails a later phase while a
\* farther limit-up bar passes every one of them
C21_FartherWouldPass ==
    /\ result.shrink_breakout.done
    /\ ~result.shrink_breakout.match
    /\ SignalHolds
    /\ \E j \in 1..(NearestLimitUp - 1) : GainsLimit(j) /\ LaterPhases(j)

ShrMatched == result.shrink_breakout.done /\ result.shrink_breakout.match
ShrDetail == result.shrink_breakout.detail
\* (max - min) / mean * 100 <= pct on the closes of the bars a .. b-1
AmplitudeWithin(a, b, pct) ==
    /\ SumClose(df, a, b) > 0
    /\ (MaxClose(df, a, b) - MinClose(df, a, b)) * (b - a) * 100 <= pct * SumClose(df, a, b)

\* C22: for a matched shrink-breakout result, the window of bars strictly
\* between the limit-up bar and the last bar has at least 5 bars, every close in
\* it is >= the limit-up bar's close, its close amplitude is <= 10, and the last
\* bar's close is strictly greater than the maximum close in it.
C22_PostWindow ==
    ShrMatched =>
        LET i == ShrDetail.limit_up_idx
            n == DfLen(df)
        IN  /\ (n - 1) - (i + 1) >= 5
            /\ \A k \in (i + 1)..(n - 2) : ILoc(df, k).close >= ILoc(df, i).close
            /\ AmplitudeWithin(i + 1, n - 1, 10)
            /\ \A k \in (i + 1)..(n - 2) : ILoc(df, -1).close > ILoc(df, k).close

\* a match whose window has an amplitude of 10 sharp and a close equal to the
\* limit-up bar's close
C22_OnBothBounds ==
    /\ ShrMatched
    /\ LET i == ShrDetail.limit_up_idx
           n == DfLen(df)
       IN  /\ (MaxClose(df, i + 1, n - 1) - MinClose(df, i + 1, n - 1)) * (n - 2 - i) * 100
                  = 10 * SumClose(df, i + 1, n - 1)
           /\ \E k \in (i + 1)..(n - 2) : ILoc(df, k).close = ILoc(df, i).close

\* C23: for a matched shrink-breakout result, the pre-consolidation window (the
\* bars from consolidation1_start up to the bar before the limit-up bar) has at
\* least 22 bars, a close amplitude <= 15, and no bar in it, the first one
\* included, meets the limit-up threshold over the close before it.
C23_NoLimitUpInWindow ==
    ShrMatched =>
        LET i == ShrDetail.limit_up_idx
            start == ShrDetail.consolidation1_start
        IN  /\ i - start >= 22
            /\ AmplitudeWithin(start, i, 15)
            /\ \A k \in start..(i - 1) : k >= 1 => ~GainsLimit(k)

\* the maximum close of the up to 60 bars before index start
PriorMax(start) == MaxClose(df, Max2(0, start - 60), start)
\* (M - close[start]) / M * 100 >= 15
DeclineAsStated(start) ==
    /\ PriorMax(start) > 0
    /\ (PriorMax(start) - ILoc(df, start).close) * 100 >= 15 * PriorMax(start)
\* the detector reached the prior-decline phase
ReachedDecline ==
    /\ result.shrink_breakout.done
    /\ SignalHolds
    /\ NearestLimitUp # -1
    /\ _sb_check_post_consolidation(df, NearestLimitUp).ok
    /\ PreOf(NearestLimitUp).ok
PreStart == PreOf(NearestLimitUp).detail.consolidation1_start

\* C24: for a pre-consolidation start s with at least one bar before it, the
\* prior-decline phase passes if and only if (M - close[s]) / M * 100 >= 15,
\* M the maximum close of the up to 60 bars before s (M = 0 fails).
C24_DeclineIffOneBarBefore ==
    (ReachedDecline /\ PreStart >= 1) =>
        (result.shrink_breakout.match <=> DeclineAsStated(PreStart))

\* C24, amended: with at least 5 bars before s the phase passes if and only if
\* (M - close[s]) / M * 100 >= 15 (M = 0 fails); with fewer than 5 bars before
\* s it fails.
C24_DeclineIffFiveBarsBefore ==
    ReachedDecline =>
        (result.shrink_breakout.match <=> (PreStart >= 5 /\ DeclineAsStated(PreStart)))

\* a match with exactly 5 bars before the start and a decline of 15 sharp
C24_FiveBarsDecline15 ==
    /\ ShrMatched
    /\ ShrDetail.consolidation1_start = 5
    /\ (PriorMax(5) - ILoc(df, 5).close) * 100 = 15 * PriorMax(5)

\* the terms of the score, from the attributes of a matched result and its
\* limit-up bar
ConsolidationTerm == Min2(((ShrDetail.consolidation1_days - 22) \div 10) * 3, 10)
DeclineTerm == Min2(((ShrDetail.decline_pct - 1500) \div 500) * 3, 10)
ShapeTerm ==
    LET row == ILoc(df, ShrDetail.limit_up_idx)
        one_word == row.open = row.close /\ row.close = row.high
        t_shape == row.open = row.low /\ row.close = row.high
    IN  IF one_word \/ t_shape THEN 8 ELSE 5
AmplitudeTier ==
    IF ShrDetail.post_amplitude < 500 THEN 8
    ELSE IF ShrDetail.post_amplitude < 800 THEN 5
    ELSE IF ShrDetail.post_amplitude < 1000 THEN 3 ELSE 0
VolumeTier ==
    IF ShrDetail.vol_ratio < 5000 THEN 10
    ELSE IF ShrDetail.vol_ratio < 6000 THEN 8
    ELSE IF ShrDetail.vol_ratio < 7000 THEN 6
    ELSE IF ShrDetail.vol_ratio < 8000 THEN 4
    ELSE IF ShrDetail.vol_ratio < 9000 THEN 2 ELSE 0
BreakoutTier ==
    IF ShrDetail.signal_change >= 200 /\ ShrDetail.signal_change <= 500 THEN 8
    ELSE IF ShrDetail.signal_change > 500 /\ ShrDetail.signal_change <= 800 THEN 5 ELSE 0

\* C25: the score of a matched shrink-breakout result is 40 + the consolidation
\* term + the decline term + 8 for a one-word or T-shape limit-up bar, else 5,
\* + the post-amplitude tier + the volume-ratio tier + the breakout tier + 6,
\* clamped to [0, 100]; the first two terms are never negative.
C25_ScoreFormula ==
    ShrMatched =>
        /\ ShrDetail.score =
              Min2(100, Max2(0, 40 + ConsolidationTerm + DeclineTerm + ShapeTerm
                                   + AmplitudeTier + VolumeTier + BreakoutTier + 6))
        /\ ConsolidationTerm >= 0
        /\ DeclineTerm >= 0

\* a match on a T-shape limit-up bar with both leading terms and the breakout
\* tier above zero
C25_TShapeAndTiers ==
    /\ ShrMatched
    /\ ShrDetail.limit_up_type = "t_shape"
    /\ ConsolidationTerm > 0
    /\ DeclineTerm > 0
    /\ BreakoutTier > 0

----------------------------------------------------------------------------
(* Properties of the scan, checked under Spec *)

ListsNow == Lists(reversal_results, volume_results, shrink_results)

\* the symbols whose evaluation has completed
Screened == Range(stocks) \ todo

\* what detector x returned on the series delivered for s
Returns(s, x) == checked[s, feed[s], mode].checks[x]

\* the match of detector x on s is in x's result list, with its score
Recorded(s, x) ==
    \E i \in 1..Len(ListsNow[x]) : ListsNow[x][i] = [code |-> s, score |-> Returns(s, x).score]

\* C2: when one detector raises an unexpected fault on a symbol, the other two
\* are still evaluated on that symbol and every match of theirs is recorded, and
\* the scan goes on: it ends only when every symbol of the universe is evaluated.
C2_FaultIsolation ==
    /\ \A s \in Screened :
          fault[s] # "none" =>
              \A x \in Detectors \ {fault[s]} :
                  /\ x \in detectors_run[s]
                  /\ Returns(s, x).match => Recorded(s, x)
    /\ pc = "done" => Screened = Range(stocks)

\* a finished sequential scan whose first symbol had its reversal detector
\* raise: the symbol's volume-breakout match and a match of the next symbol
\* are both recorded
C2_FaultThenHits ==
    /\ pc = "done"
    /\ mode = "sequential"
    /\ Len(stocks) >= 2
    /\ fault[stocks[1]] = "reversal"
    /\ HasCode(volume_results, stocks[1])
    /\ fault[stocks[2]] = "none"
    /\ HasCode(volume_results, stocks[2])

\* the collaborator errs, or delivers fewer than 30 valid bars
FailedFeeds == {"error", "exception", "short", "invalid_rows"}

\* C3: when the retrieval of a symbol's series fails, no detector is run on the
\* symbol, nothing of it enters a result list or the Hit Map, and the scan goes
\* on to the next symbol and completes.
C3_RetrievalFailureSkipsSymbol ==
    /\ \A s \in Screened :
          feed[s] \in FailedFeeds =>
              /\ detectors_run[s] = {}
              /\ \A x \in Detectors : ~HasCode(ListsNow[x], s)
              /\ ~HasCode(hit_map, s)
    /\ pc = "done" => Screened = Range(stocks)

\* a finished scan whose first symbol came with 27 valid rows among 31 and
\* whose second symbol is in the Hit Map
C3_SkippedThenHit ==
    /\ pc = "done"
    /\ Len(stocks) >= 2
    /\ feed[stocks[1]] = "invalid_rows"
    /\ HasCode(hit_map, stocks[2])

\* The strictly sequential run on the same universe, series and faults: the
\* lists after the loop in universe order.
RECURSIVE sequential_lists(_, _)
sequential_lists(lists, rest) ==
    IF rest = << >> THEN lists
    ELSE LET s == Head(rest)
             out == screen_single_stock(s, feed[s], fault[s], "sequential")
         IN  sequential_lists(IF out.raised THEN lists ELSE collect(lists, out.results),
                              Tail(rest))

SequentialSorted ==
    LET lists == sequential_lists(Lists(<< >>, << >>, << >>), stocks)
    IN  Lists(sort_by_score(lists.reversal), sort_by_score(lists.volume_breakout),
              sort_by_score(lists.shrink_breakout))

\* the (detector, symbol, score) hits of a triple of lists
HitSet(lists) ==
    UNION {{<<x, lists[x][i].code, lists[x][i].score>> : i \in 1..Len(lists[x])} :
           x \in Detectors}

\* the Hit Map as a mapping: per symbol the set of detectors and their scores
HitMapView(hm) ==
    {[code |-> hm[i].code, strategies |-> Range(hm[i].strategies), scores |-> hm[i].scores] :
     i \in 1..Len(hm)}

ResonanceSet(hm) == {hm[i].code : i \in {j \in 1..Len(hm) : Len(hm[j].strategies) >= 2}}

\* C4: the pool run, whatever the order in which the tasks complete, ends with the
\* same set of hits, the same Hit Map and the same resonance set as the
\* sequential run in universe order.
C4_ConcurrentEqualsSequential ==
    (pc = "done" /\ mode = "concurrent") =>
        LET reference == build_hit_map(SequentialSorted) IN
        /\ HitSet(ListsNow) = HitSet(SequentialSorted)
        /\ HitMapView(hit_map) = HitMapView(reference)
        /\ {multi_listing[i].code : i \in 1..Len(multi_listing)} = ResonanceSet(reference)

\* a finished pool run whose completion order shows: its reversal list is not
\* the list of the sequential run, and two symbols are in resonance
C4_OtherCompletionOrder ==
    /\ pc = "done"
    /\ mode = "concurrent"
    /\ reversal_results # SequentialSorted.reversal
    /\ Len(multi_listing) >= 2

\* the symbols of a list, in its order
CodeSequence(seq) == [i \in 1..Len(seq) |-> seq[i].code]

\* the lists of the pool run had its tasks completed in universe order
RECURSIVE lists_completed_in(_, _)
lists_completed_in(lists, rest) ==
    IF rest = << >> THEN lists
    ELSE LET s == Head(rest)
             out == screen_single_stock(s, feed[s], fault[s], mode)
         IN  lists_completed_in(IF out.raised THEN lists ELSE collect(lists, out.results),
                                Tail(rest))

UniverseOrderSorted ==
    LET lists == lists_completed_in(Lists(<< >>, << >>, << >>), stocks)
    IN  Lists(sort_by_score(lists.reversal), sort_by_score(lists.volume_breakout),
              sort_by_score(lists.shrink_breakout))

\* C27: in the pool run the sorted per-detector lists and the top recommendations
\* come in the same order whatever the order in which the tasks complete: the
\* order they have when the tasks complete in universe order.
C27_RankingIgnoresCompletionOrder ==
    (pc = "done" /\ mode = "concurrent") =>
        /\ CodeSequence(reversal_results) = CodeSequence(UniverseOrderSorted.reversal)
        /\ CodeSequence(volume_results) = CodeSequence(UniverseOrderSorted.volume_breakout)
        /\ CodeSequence(shrink_results) = CodeSequence(UniverseOrderSorted.shrink_breakout)
        /\ CodeSequence(ranked) = CodeSequence(_print_report(UniverseOrderSorted, mode).ranked)

----------------------------------------------------------------------------
(* Properties of the aggregation, checked under SpecAgg *)

\* the detectors that hit symbol c, and the highest of their scores
HitsOf(c) == {x \in Detectors : HasCode(ListsNow[x], c)}
HitSymbols == {c \in Range(stocks) : HitsOf(c) # {}}
ScoreOf(c, x) == ListsNow[x][IndexOf(ListsNow[x], c)].score
MaxScore(c) == CHOOSE v \in {ScoreOf(c, x) : x \in HitsOf(c)} :
                   \A x \in HitsOf(c) : ScoreOf(c, x) <= v

NoRepeat(seq) == \A i, j \in 1..Len(seq) : seq[i].code = seq[j].code => i = j

\* C5: the resonance listing holds exactly the symbols hit by two or more
\* detectors, ordered by hit count descending and, within one hit count, by the
\* highest detector score descending.
C5_ResonanceListing ==
    pc = "done" =>
        /\ NoRepeat(multi_listing)
        /\ {multi_listing[i].code : i \in 1..Len(multi_listing)}
               = {c \in HitSymbols : Cardinality(HitsOf(c)) >= 2}
        /\ \A i, j \in 1..Len(multi_listing) :
              i < j =>
                  LET a == multi_listing[i].code
                      b == multi_listing[j].code
                  IN  \/ Cardinality(HitsOf(a)) > Cardinality(HitsOf(b))
                      \/ /\ Cardinality(HitsOf(a)) = Cardinality(HitsOf(b))
                         /\ MaxScore(a) >= MaxScore(b)

\* C6: the top recommendations hold each hit symbol at most once, with the
\* highest score over the detectors that hit it and the full list of those
\* detectors, ordered by hit count descending and then by that score
\* descending, and are the first five of that order at most.
C6_TopRecommendations ==
    pc = "done" =>
        /\ NoRepeat(ranked)
        /\ Len(ranked) = Min2(5, Cardinality(HitSymbols))
        /\ \A i \in 1..Len(ranked) :
              LET c == ranked[i].code IN
              /\ c \in HitSymbols
              /\ ranked[i].score = MaxScore(c)
              /\ Range(ranked[i].strategies) = HitsOf(c)
              /\ Len(ranked[i].strategies) = Cardinality(HitsOf(c))
              /\ ranked[i].hit_count = Cardinality(HitsOf(c))
        /\ \A i, j \in 1..Len(ranked) :
              i < j =>
                  \/ ranked[i].hit_count > ranked[j].hit_count
                  \/ /\ ranked[i].hit_count = ranked[j].hit_count
                     /\ ranked[i].score >= ranked[j].score
        /\ \A c \in HitSymbols \ {ranked[i].code : i \in 1..Len(ranked)} :
              \A i \in 1..Len(ranked) :
                  \/ ranked[i].hit_count > Cardinality(HitsOf(c))
                  \/ /\ ranked[i].hit_count = Cardinality(HitsOf(c))
                     /\ ranked[i].score >= MaxScore(c)

\* six symbols are hit and five recommended; one of the five is hit by two
\* detectors and carries the score of the second, the higher one
C6_FiveOfSix ==
    /\ pc = "done"
    /\ Cardinality(HitSymbols) = 6
    /\ Len(ranked) = 5
    /\ \E i \in 1..Len(ranked) :
          /\ ranked[i].strategies = <<"reversal", "volume_breakout">>
          /\ ranked[i].score > ScoreOf(ranked[i].code, "reversal")

\* the six orders in which the three detectors can be taken
DetectorOrders ==
    {o \in [1..3 -> Detectors] : Range(o) = Detectors}

\* C7: the three result lists aggregated with the detectors taken in any of the
\* six orders give the same Hit Map (per symbol the set of detectors and each
\* detector's score) and the same resonance set.
C7_DetectorOrderIrrelevant ==
    pc = "done" =>
        \A o \in DetectorOrders :
            /\ HitMapView(hit_map_in_order(o, ListsNow)) = HitMapView(hit_map)
            /\ ResonanceSet(hit_map_in_order(o, ListsNow))
                   = {multi_listing[i].code : i \in 1..Len(multi_listing)}

\* a report with two symbols in resonance, of lists that another detector
\* order enters into the map in another sequence
C7_OrderShows ==
    /\ pc = "done"
    /\ Len(multi_listing) >= 2
    /\ \E o \in DetectorOrders : hit_map_in_order(o, ListsNow) # hit_map

MaxRunStocks == 4

\* login(): bs.login() is called only when no session is open; error_code '0'
\* opens the session, any other code leaves it closed
login(logged_in, error_code) ==
    IF ~logged_in
    THEN IF error_code = "0"
         THEN [bs_logged_in |-> TRUE, calls |-> <<"login">>, return |-> TRUE]
         ELSE [bs_logged_in |-> FALSE, calls |-> <<"login">>, return |-> FALSE]
    ELSE [bs_logged_in |-> logged_in, calls |-> << >>, return |-> TRUE]

\* logout(): bs.logout() is called only when a session is open
logout(logged_in) ==
    IF logged_in
    THEN [bs_logged_in |-> FALSE, calls |-> <<"logout">>]
    ELSE [bs_logged_in |-> logged_in, calls |-> << >>]

\* the error codes bs.login() answers with
LoginCodes == {"0", "10001001"}

\* what _save_results writes, in order: one CSV step when a list is non-empty,
\* the JSON file, the Markdown file, the step summary when its path is set
save_writes(hits, summary) ==
    (IF hits > 0 THEN <<"csv">> ELSE << >>) \o <<"json", "markdown">>
        \o (IF summary THEN <<"summary">> ELSE << >>)

\* leaving run() with no finally clause
LeaveTry_without_finally(calls, outcome) ==
    /\ bs_logged_in' = bs_logged_in
    /\ bs_calls' = calls
    /\ run_pc' = outcome

\* leaving the try block of run() by return or by an exception: finally logs out
LeaveTry(calls, outcome) ==
    LET out == logout(bs_logged_in) IN
    /\ bs_logged_in' = out.bs_logged_in
    /\ bs_calls' = calls \o out.calls
    /\ run_pc' = outcome

\* run(): if not self.login(): return
RunLogin ==
    /\ run_pc = "start"
    /\ \E error_code \in LoginCodes :
         LET lg == login(bs_logged_in, error_code) IN
         /\ bs_logged_in' = lg.bs_logged_in
         /\ bs_calls' = bs_calls \o lg.calls
         /\ run_pc' = IF lg.return THEN "get_stock_list" ELSE "returned"
    /\ UNCHANGED <<run_left, run_hits, files_written>>
    /\ UNCHANGED <<detVars, pc, scanVars, listVars, repVars, agentVars>>

\* run(): stocks = self.get_stock_list(); an exception inside the query gives [],
\* and an empty list returns from inside the try block
RunGetStockList ==
    /\ run_pc = "get_stock_list"
    /\ \E n \in 0..MaxRunStocks, raised \in BOOLEAN :
         LET found == IF raised THEN 0 ELSE n
             calls == bs_calls \o <<"query_stock_basic">>
         IN
         IF found = 0
         THEN /\ LeaveTry(calls, "returned")
              /\ UNCHANGED run_left
         ELSE /\ bs_calls' = calls
              /\ run_left' = found
              /\ run_pc' = "screen"
              /\ UNCHANGED bs_logged_in
    /\ UNCHANGED <<run_hits, files_written>>
    /\ UNCHANGED <<detVars, pc, scanVars, listVars, repVars, agentVars>>

\* what one pass of the loop body can end in: no result, results appended,
\* an Exception (swallowed by the loop), or an exception that is not an
\* Exception (KeyboardInterrupt), which leaves the loop
ScreenOutcomes == {"none", "hit", "exception", "interrupt"}

\* run(): one pass of "for i, stock in enumerate(stocks)"
RunScreenStock ==
    /\ run_pc = "screen"
    /\ run_left > 0
    /\ \E outcome \in ScreenOutcomes :
         LET calls == bs_calls \o <<"query_history_k_data_plus">> IN
         IF outcome = "interrupt"
         THEN /\ LeaveTry(calls, "raised")
              /\ UNCHANGED <<run_left, run_hits>>
         ELSE /\ bs_calls' = calls
              /\ run_left' = run_left - 1
              /\ run_hits' = IF outcome = "hit" THEN run_hits + 1 ELSE run_hits
              /\ run_pc' = IF run_left = 1 THEN "aggregate" ELSE "screen"
              /\ UNCHANGED bs_logged_in
    /\ UNCHANGED files_written
    /\ UNCHANGED <<detVars, pc, scanVars, listVars, repVars, agentVars>>

\* run(): the three sorts and the name refresh; an exception leaves the try block
RunAggregate ==
    /\ run_pc = "aggregate"
    /\ \E raised \in BOOLEAN :
         IF raised
         THEN LeaveTry(bs_calls, "raised")
         ELSE /\ run_pc' = "save"
              /\ UNCHANGED <<bs_logged_in, bs_calls>>
    /\ UNCHANGED <<run_left, run_hits, files_written>>
    /\ UNCHANGED <<detVars, pc, scanVars, listVars, repVars, agentVars>>

\* run(): self._save_results(...), which may raise at any of its writes, and
\* then the end of the try block
RunSave ==
    /\ run_pc = "save"
    /\ \E summary \in BOOLEAN :
         LET writes == save_writes(run_hits, summary) IN
         \E k \in 0..Len(writes) :
            /\ files_written' = SubSeq(writes, 1, k)
            /\ LeaveTry(bs_calls, IF k < Len(writes) THEN "raised" ELSE "returned")
    /\ UNCHANGED <<run_left, run_hits>>
    /\ UNCHANGED <<detVars, pc, scanVars, listVars, repVars, agentVars>>

CloudInit ==
    /\ bs_logged_in = FALSE
    /\ bs_calls = << >>
    /\ run_pc = "start"
    /\ run_left = 0
    /\ run_hits = 0
    /\ files_written = << >>
    /\ ScanIdle
    /\ DetIdle
    /\ AgentIdle

CloudNext == RunLogin \/ RunGetStockList \/ RunScreenStock \/ RunAggregate \/ RunSave

SpecCloud == CloudInit /\ [][CloudNext]_vars

\* ---------------------------------------------------------------------
\* Properties of the cloud screener's session, checked under SpecCloud
\* ---------------------------------------------------------------------

RunEnded == run_pc \in {"returned", "raised"}

InsideTry == run_pc \in {"get_stock_list", "screen", "aggregate", "save"}

CallCount(name) == Cardinality({i \in 1..Len(bs_calls) : bs_calls[i] = name})

\* C28: in the cloud scan's run(), a failed login ends the run with nothing
\* fetched, evaluated or written; after a successful login the session stays
\* open while the try block runs and the step that ends the run, on every
\* path, logs out, so that there is exactly one logout and bs_logged_in is
\* false whenever run() has ended
C28_SessionClosedOnEveryPath ==
    /\ [][(run_pc = "start" /\ ~bs_logged_in')
            => /\ run_pc' = "returned"
               /\ bs_calls' = <<"login">>
               /\ files_written' = << >>
               /\ run_hits' = 0]_vars
    /\ [][(InsideTry /\ RunEnded')
            => /\ bs_calls'[Len(bs_calls')] = "logout"
               /\ CallCount("logout")' = 1
               /\ ~bs_logged_in']_vars
    /\ [](InsideTry => (bs_logged_in /\ CallCount("logout") = 0))
    /\ [](RunEnded => (~bs_logged_in /\ CallCount("logout") <= 1))

\* C28 witness: _save_results raised after its first write, and the run ended
\* logged out with the logout as the last call on the session
C28_SaveRaisedAndLoggedOut ==
    /\ run_pc = "raised"
    /\ run_hits > 0
    /\ files_written = <<"csv">>
    /\ ~bs_logged_in
    /\ bs_calls[Len(bs_calls)] = "logout"
    /\ CallCount("logout") = 1

\* ---------------------------------------------------------------------
\* The agent runner: run_agent's loop over model replies and tool calls
\* ---------------------------------------------------------------------

\* run_agent: max_iterations = 10
max_iterations == 10

TextBlock(text) == [type |-> "text", text |-> text, id |-> "", name |-> ""]

ToolUseBlock(id, name) == [type |-> "tool_use", text |-> << >>, id |-> id, name |-> name]

\* the content of the replies that ask for tools: one with text between three
\* tool calls (the results reader, the screener, a tool that is not offered),
\* one with no tool call in it
ToolUseContents ==
    { << ToolUseBlock("toolu_01", "read_screening_results"),
         TextBlock(<<"running">>),
         ToolUseBlock("toolu_02", "run_stock_screener"),
         ToolUseBlock("toolu_03", "web_search") >>,
      << TextBlock(<<"thinking">>) >> }

\* the content of the replies that end the turn: two text blocks around a
\* block of another type, and no block at all
EndTurnContents ==
    { << TextBlock(<<"summary">>), ToolUseBlock("toolu_09", "web_search"),
         TextBlock(<<"advice">>) >>,
      << >> }

\* the stop reasons that are neither end_turn nor tool_use
OtherStopReasons == {"max_tokens", "refusal"}

\* what the screener subprocess can end in: results file written, nothing
\* written, or subprocess.run raising TimeoutExpired
SubprocessOutcomes == {"wrote", "nothing", "timeout"}

\* execute_tool(tool_name, tool_input) with the results file present or not
execute_tool(tool_name, exists, outcome) ==
    IF tool_name = "run_stock_screener"
    THEN IF outcome = "timeout"
         THEN [raised |-> TRUE, content |-> "", results_file |-> exists]
         ELSE [raised |-> FALSE, content |-> "screener_output",
               results_file |-> exists \/ outcome = "wrote"]
    ELSE IF tool_name = "read_screening_results"
    THEN [raised |-> FALSE,
          content |-> IF exists THEN "results_json" ELSE "error_no_results_file",
          results_file |-> exists]
    ELSE [raised |-> FALSE, content |-> "error_unknown_tool", results_file |-> exists]

\* the tool_result that names its tool instead of its call
tool_result_by_name(block, output) ==
    [type |-> "tool_result", tool_use_id |-> block.name, content |-> output]

\* run_agent: the dict appended to tool_results for one tool_use block
tool_result(block, output) ==
    [type |-> "tool_result", tool_use_id |-> block.id, content |-> output]

\* run_agent: "for block in response.content" from block k on, with the
\* tool_results collected so far
RECURSIVE process_blocks(_, _, _, _, _)
process_blocks(content, k, tool_results, exists, outcome) ==
    IF k > Len(content)
    THEN [raised |-> FALSE, tool_results |-> tool_results, results_file |-> exists]
    ELSE IF content[k].type = "tool_use"
    THEN LET r == execute_tool(content[k].name, exists, outcome) IN
         IF r.raised
         THEN [raised |-> TRUE, tool_results |-> tool_results, results_file |-> r.results_file]
         ELSE process_blocks(content, k + 1,
                             Append(tool_results, tool_result(content[k], r.content)),
                             r.results_file, outcome)
    ELSE process_blocks(content, k + 1, tool_results, exists, outcome)

\* run_agent: final_text, the text blocks of the reply joined in order
RECURSIVE final_text(_, _)
final_text(content, k) ==
    IF k > Len(content) THEN << >>
    ELSE (IF content[k].type = "text" THEN content[k].text ELSE << >>)
            \o final_text(content, k + 1)

\* run_agent up to the loop: without an API key the process exits
AgentStart ==
    /\ agent_pc = "start"
    /\ \E api_key \in BOOLEAN :
         IF api_key
         THEN /\ messages' = << [role |-> "user", content |-> "task"] >>
              /\ agent_pc' = "loop"
         ELSE /\ agent_pc' = "exited"
              /\ UNCHANGED messages
    /\ UNCHANGED <<response, iteration, api_calls, saved_reports, results_file>>
    /\ UNCHANGED <<detVars, pc, scanVars, listVars, repVars, cloudVars>>

\* one pass of the loop: client.messages.create raises
CreateRaises ==
    /\ agent_pc = "loop"
    /\ iteration < max_iterations
    /\ api_calls' = api_calls + 1
    /\ agent_pc' = "raised"
    /\ UNCHANGED <<messages, response, iteration, saved_reports, results_file>>
    /\ UNCHANGED <<detVars, pc, scanVars, listVars, repVars, cloudVars>>

\* one pass of the loop: the reply has stop_reason end_turn; the report is
\* saved (save_report may raise) and the loop is left
ReplyEndTurn ==
    /\ agent_pc = "loop"
    /\ iteration < max_iterations
    /\ \E content \in EndTurnContents, saved \in BOOLEAN :
         /\ response' = [stop_reason |-> "end_turn", content |-> content]
         /\ saved_reports' = Append(saved_reports, final_text(content, 1))
         /\ agent_pc' = IF saved THEN "returned" ELSE "raised"
    /\ api_calls' = api_calls + 1
    /\ UNCHANGED <<messages, iteration, results_file>>
    /\ UNCHANGED <<detVars, pc, scanVars, listVars, repVars, cloudVars>>

\* one pass of the loop: the reply has stop_reason tool_use; the reply and the
\* tool results are appended, unless a tool raises; after the last pass the
\* loop's else branch ends the run
ReplyToolUse ==
    /\ agent_pc = "loop"
    /\ iteration < max_iterations
    /\ \E content \in ToolUseContents, outcome \in SubprocessOutcomes :
         LET assistant == [role |-> "assistant", content |-> content]
             done == process_blocks(content, 1, << >>, results_file, outcome)
         IN
         /\ response' = [stop_reason |-> "tool_use", content |-> content]
         /\ results_file' = done.results_file
         /\ IF done.raised
            THEN /\ messages' = Append(messages, assistant)
                 /\ agent_pc' = "raised"
                 /\ UNCHANGED iteration
            ELSE /\ messages' = messages \o
                        << assistant, [role |-> "user", content |-> done.tool_results] >>
                 /\ iteration' = iteration + 1
                 /\ agent_pc' = IF iteration + 1 < max_iterations THEN "loop" ELSE "exhausted"
    /\ api_calls' = api_calls + 1
    /\ UNCHANGED saved_reports
    /\ UNCHANGED <<detVars, pc, scanVars, listVars, repVars, cloudVars>>

\* one pass of the loop: any other stop_reason leaves the loop
ReplyOther ==
    /\ agent_pc = "loop"
    /\ iteration < max_iterations
    /\ \E reason \in OtherStopReasons, content \in EndTurnContents :
         response' = [stop_reason |-> reason, content |-> content]
    /\ api_calls' = api_calls + 1
    /\ agent_pc' = "returned"
    /\ UNCHANGED <<messages, iteration, saved_reports, results_file>>
    /\ UNCHANGED <<detVars, pc, scanVars, listVars, repVars, cloudVars>>

AgentInit ==
    /\ messages = << >>
    /\ response = NoResponse
    /\ iteration = 0
    /\ api_calls = 0
    /\ agent_pc = "start"
    /\ saved_reports = << >>
    /\ results_file \in BOOLEAN
    /\ ScanIdle
    /\ DetIdle
    /\ CloudIdle

AgentNext == AgentStart \/ CreateRaises \/ ReplyEndTurn \/ ReplyToolUse \/ ReplyOther

SpecAgent == AgentInit /\ [][AgentNext]_vars

\* ---------------------------------------------------------------------
\* Properties of the agent runner, checked under SpecAgent
\* ---------------------------------------------------------------------

AgentEnded == agent_pc \in {"returned", "raised", "exhausted", "exited"}

IsToolUse(block) == block.type = "tool_use"

\* the ids of the tool_use blocks of a reply, in the reply's order
ToolUseIds(content) ==
    LET calls == SelectSeq(content, IsToolUse) IN
    [k \in 1..Len(calls) |-> calls[k].id]

\* the last two messages carry the reply and one tool_result per tool_use
\* block of it, with that block's id, in the blocks' order
ReplyAnswered ==
    /\ Len(messages) >= 3
    /\ LET reply == messages[Len(messages) - 1]
           answer == messages[Len(messages)]
       IN
       /\ reply.role = "assistant"
       /\ reply.content = response.content
       /\ answer.role = "user"
       /\ Len(answer.content) = Len(ToolUseIds(response.content))
       /\ \A k \in 1..Len(answer.content) :
            /\ answer.content[k].type = "tool_result"
            /\ answer.content[k].tool_use_id = ToolUseIds(response.content)[k]

\* C30: run_agent makes at most 10 model calls and has stopped after the
\* tenth; the report is saved at most once and only by the step that received
\* an end_turn reply; whenever the loop goes on after a tool_use reply, the
\* conversation ends with that reply and one tool_result per tool_use block,
\* with matching ids in the same order; a reply with any other stop_reason
\* ends the loop with no report saved
C30_AgentLoop ==
    /\ [](api_calls <= max_iterations)
    /\ [](api_calls = max_iterations => AgentEnded)
    /\ [](Len(saved_reports) <= 1)
    /\ [][saved_reports' # saved_reports
            => /\ api_calls' = api_calls + 1
               /\ response'.stop_reason = "end_turn"
               /\ AgentEnded']_vars
    /\ []((response.stop_reason = "tool_use" /\ agent_pc \in {"loop", "exhausted"})
            => ReplyAnswered)
    /\ [][(agent_pc = "loop" /\ api_calls' = api_calls + 1 /\ response.stop_reason = "tool_use")
            => ReplyAnswered]_vars
    /\ [][(api_calls' = api_calls + 1 /\ agent_pc' # "raised"
             /\ response'.stop_reason \notin {"end_turn", "tool_use"})
            => /\ agent_pc' = "returned"
               /\ saved_reports' = saved_reports]_vars
    /\ []((response.stop_reason \in OtherStopReasons) => (AgentEnded /\ saved_reports = << >>))

\* C30 witness: nine tool rounds, the last with three tool calls answered,
\* then the tenth call answered end_turn and the report saved once
C30_SavedOnTenthCall ==
    /\ api_calls = max_iterations
    /\ agent_pc = "returned"
    /\ response.stop_reason = "end_turn"
    /\ saved_reports = << <<"summary", "advice">> >>
    /\ Len(messages) = 19
    /\ Len(messages[19].content) = 3
    /\ messages[19].content[2].tool_use_id = "toolu_02"

====
